---- MODULE Spec2Model ----
(***************************************************************************)
(* Model of the minesweeper leaderboard worker (src/src/optimized.js):     *)
(* the rate limiter, the claim validators, the behaviour analyzer, the     *)
(* leaderboard accept path, the admin token check and the process cache.   *)
(*                                                                         *)
(* Conventions.                                                            *)
(*  - Clock values and durations are milliseconds (Date.now()).            *)
(*  - A JavaScript number is a record [fin, ms]: fin is "fin", "nan" or    *)
(*    "inf", ms its value in thousandths (1 second = 1000), so that the    *)
(*    references 0.49, 7.03 and 31.133 are exact.                          *)
(*  - A string is a sequence of one-character strings.                     *)
(*  - env.LEADERBOARD is a key-value store with per-key expiry; one        *)
(*    variable per key namespace.  A get or put acts on the store in one   *)
(*    step; the code after the await runs in the step that follows.        *)
(***************************************************************************)
EXTENDS Integers, Sequences, FiniteSets, TLC

\* ------------------------------------------------------------ bounds
\* Date.now() at the start of a behaviour.
StartTime == 600000
\* Requests a behaviour of Spec may start.
MaxReq == 2
\* The same for SpecSeq, where one request is handled at a time, and the
\* clock advances a behaviour of SpecSeq may take.
MaxSeqReq == 3
MaxSeqTicks == 1
\* Requests of a behaviour of SpecRate.
MaxRateReq == 16
\* Token presentations and clock advances of a behaviour of SpecToken.
MaxTokenReq == 3
MaxTokenTicks == 2
\* Requests of a behaviour of SpecScore.
MaxScoreReq == 2
\* SpecBehave: requests started, clock advances
MaxBehaveReq == 5
MaxBehaveTicks == 1
\* SpecWrite: requests started
MaxWriteReq == 2
\* SpecCache: requests started
MaxCacheReq == 3
\* SpecAdapter: calls made, clock advances
MaxAdapterCalls == 3
MaxAdapterTicks == 1
\* SpecOptimizer: the largest maxConcurrency, tasks given to execute
MaxSlots == 3
MaxTasks == 6
\* SpecRace: requests started
MaxRaceReq == 3
\* SpecReplay: admin requests started, clock advances
MaxReplayReq == 3
MaxReplayTicks == 1
\* SpecGame: the largest board, the most mines and the moves counted
MaxRows == 3
MaxCols == 4
MaxMines == 2
MaxMoves == 3
MaxCoolReq == 4
MaxCoolTicks == 2
MaxFaultReq == 2

\* ------------------------------------------------- program constants
TopN == 20
IpLimit == 20
FingerprintLimit == 15
GlobalLimit == 1000
WindowMs == 60000
CounterTtlS == 120
MaxNameLen == 16
MaxTime == 9999
SessionMaxAgeMs == 604800000
DurationSlackS == 60
FrequentWindowS == 300
MaxSuspiciousCount == 3
StatsTtlS == 604800
CacheCapMs == 300000
DefaultCacheTtlMs == 60000
TokenMaxAgeMs == 300000
UsedTokenTtlS == 600
GlobalMaxConcurrency == 8
GetCacheTtlMs == 30000
MinKeyLen == 32

Difficulties == {"beginner", "intermediate", "expert"}

\* ------------------------------------------------------------ numbers
Min(a, b) == IF a < b THEN a ELSE b
Max(a, b) == IF a > b THEN a ELSE b
Abs(a) == IF a < 0 THEN 0 - a ELSE a

Fin(ms) == [fin |-> "fin", ms |-> ms]
NaN == [fin |-> "nan", ms |-> 0]
Infinity == [fin |-> "inf", ms |-> 0]
Secs(n) == Fin(n * 1000)

\* a < b on numbers (false when either is NaN)
NumLt(a, b) ==
  /\ a.fin # "nan" /\ b.fin # "nan"
  /\ IF a.fin = "inf" THEN FALSE
     ELSE IF b.fin = "inf" THEN TRUE
     ELSE a.ms < b.ms
NumGt(a, b) == NumLt(b, a)

\* ------------------------------------------------------------ strings
Digits == {"0", "1", "2", "3", "4", "5", "6", "7", "8", "9"}
DigitChars == <<"0", "1", "2", "3", "4", "5", "6", "7", "8", "9">>
DigitVal(c) == CHOOSE v \in 0..9 : DigitChars[v + 1] = c

RECURSIVE DigitsValue(_)
DigitsValue(s) ==
  IF s = <<>> THEN 0
  ELSE 10 * DigitsValue(SubSeq(s, 1, Len(s) - 1)) + DigitVal(s[Len(s)])

RECURSIVE Pow10(_)
Pow10(n) == IF n = 0 THEN 1 ELSE 10 * Pow10(n - 1)

RECURSIVE IntToStr(_)
IntToStr(n) ==
  IF n < 10 THEN <<DigitChars[n + 1]>>
  ELSE Append(IntToStr(n \div 10), DigitChars[(n % 10) + 1])

\* String.prototype.trim, for strings whose only white space is " "
LeadSpaces(s) ==
  CHOOSE k \in 0..Len(s) :
    /\ \A i \in 1..k : s[i] = " "
    /\ (k < Len(s) => s[k + 1] # " ")
TrailSpaces(s) ==
  CHOOSE k \in 0..Len(s) :
    /\ \A i \in 1..k : s[Len(s) + 1 - i] = " "
    /\ (k < Len(s) => s[Len(s) - k] # " ")
Trim(s) ==
  IF LeadSpaces(s) = Len(s) THEN <<>>
  ELSE SubSeq(s, LeadSpaces(s) + 1, Len(s) - TrailSpaces(s))

LeadDigits(s) ==
  CHOOSE k \in 0..Len(s) :
    /\ \A i \in 1..k : s[i] \in Digits
    /\ (k < Len(s) => s[k + 1] \notin Digits)

\* parseInt(s) for strings of digits, letters and spaces: the leading digits
\* after white space, NaN when there are none
ParseIntWhole(s) ==
  LET t == Trim(s)
      k == LeadDigits(t)
  IN  [nan |-> k = 0, n |-> IF k = 0 THEN 0 ELSE DigitsValue(SubSeq(t, 1, k))]
\* the same as a number in thousandths
ParseIntStr(s) ==
  IF ParseIntWhole(s).nan THEN NaN ELSE Secs(ParseIntWhole(s).n)

\* Number(s) for strings of digits, letters and spaces: "", "123", "12e3";
\* anything else is NaN
StrToNumber(s) ==
  LET t == Trim(s)
      k == LeadDigits(t)
  IN  IF t = <<>> THEN Secs(0)
      ELSE IF k = 0 THEN NaN
      ELSE IF k = Len(t) THEN Secs(DigitsValue(t))
      ELSE IF /\ t[k + 1] \in {"e", "E"}
              /\ k + 1 < Len(t)
              /\ \A i \in (k + 2)..Len(t) : t[i] \in Digits
           THEN Secs(DigitsValue(SubSeq(t, 1, k))
                       * Pow10(DigitsValue(SubSeq(t, k + 2, Len(t)))))
      ELSE NaN

\* ----------------------------------------------- request-body values
\* A JSON value in the place of a time: a number, a string or something else.
NumV(ms) == [typ |-> "number", num |-> Fin(ms), str |-> <<>>]
StrV(s) == [typ |-> "string", num |-> NaN, str |-> s]
NullV == [typ |-> "object", num |-> NaN, str |-> <<>>]

\* Number(x)
ToNumber(x) ==
  IF x.typ = "number" THEN x.num
  ELSE IF x.typ = "string" THEN StrToNumber(x.str)
  ELSE Secs(0)

\* Number.isInteger(x): only a number, never a numeric string
IsIntegerV(x) == x.typ = "number" /\ x.num.fin = "fin" /\ x.num.ms % 1000 = 0

\* parseInt(x) of a value that passed validateTime
ParseIntV(x) ==
  IF x.typ = "string" THEN ParseIntStr(x.str)
  ELSE IF x.num.fin = "fin" THEN Secs(x.num.ms \div 1000)
  ELSE NaN

\* ------------------------------------------------------ DataValidator
AllowedNameChars ==
  Digits \cup {"a", "b", "c", "e", "f", "x", "A", "Z", "_", "-", " "}
SpecialNameChars == {"_", "-", " "}

validateUsername(username) ==
  LET trimmed == Trim(username)
  IN  IF username = <<>> THEN [valid |-> FALSE, reason |-> "not_string"]
      ELSE IF Len(trimmed) = 0 THEN [valid |-> FALSE, reason |-> "empty"]
      ELSE IF Len(trimmed) > MaxNameLen THEN [valid |-> FALSE, reason |-> "too_long"]
      ELSE IF \E i \in 1..Len(trimmed) : trimmed[i] \notin AllowedNameChars
           THEN [valid |-> FALSE, reason |-> "illegal_chars"]
      ELSE IF \A i \in 1..Len(trimmed) : trimmed[i] \in SpecialNameChars
           THEN [valid |-> FALSE, reason |-> "only_special"]
      ELSE [valid |-> TRUE, reason |-> "ok"]

validateTime(time) ==
  LET numTime == ToNumber(time)
  IN  IF time.typ \notin {"number", "string"}
        THEN [valid |-> FALSE, reason |-> "not_number"]
      ELSE IF numTime.fin # "fin" THEN [valid |-> FALSE, reason |-> "not_finite"]
      ELSE IF numTime.ms % 1000 # 0 \/ numTime.ms < 1000
        THEN [valid |-> FALSE, reason |-> "not_positive_integer"]
      ELSE IF numTime.ms > MaxTime * 1000
        THEN [valid |-> FALSE, reason |-> "too_large"]
      ELSE [valid |-> TRUE, reason |-> "ok"]

validateDifficulty(difficulty) ==
  IF difficulty \notin Difficulties
    THEN [valid |-> FALSE, reason |-> "invalid_difficulty"]
  ELSE [valid |-> TRUE, reason |-> "ok"]

RequiredFields ==
  {"difficulty", "time", "moves", "gameId", "timestamp", "boardSize",
   "mineCount", "gameEndTime", "firstClickTime", "gameState"}

validateGameDataStructure(gameData) ==
  IF RequiredFields \subseteq gameData.fields
    THEN [valid |-> TRUE, reason |-> "ok"]
  ELSE [valid |-> FALSE, reason |-> "missing_field"]

\* ------------------------------------------------------ rolling hash
\* charCodeAt for the characters the model's strings are made of
CharCode(c) ==
  CASE c \in Digits -> 48 + DigitVal(c)
    [] c = " " -> 32
    [] c = "-" -> 45
    [] c = "." -> 46
    [] c = ":" -> 58
    [] c = "<" -> 60
    [] c = "A" -> 65
    [] c = "Z" -> 90
    [] c = "_" -> 95
    [] c = "a" -> 97
    [] c = "b" -> 98
    [] c = "c" -> 99
    [] c = "e" -> 101
    [] c = "f" -> 102
    [] c = "k" -> 107
    [] c = "x" -> 120

\* A 32-bit integer is a pair <<high 16 bits, low 16 bits>> of its two's
\* complement, so that no intermediate value exceeds 32 bits.
HashStep(h, code) ==
  LET lo == 31 * h[2] + code
      hi == 31 * h[1] + (lo \div 65536)
  IN  <<hi % 65536, lo % 65536>>

RECURSIVE HashFrom(_, _, _)
\* the loop from character i on: hash = ((hash << 5) - hash) + char;
\* hash = hash & hash
HashFrom(hash, s, i) ==
  IF i > Len(s) THEN hash
  ELSE LET next == HashStep(hash, CharCode(s[i]))
       \* the value is computed at every character, as the loop does
       IN  IF next[1] < 65536 THEN HashFrom(next, s, i + 1) ELSE next

RollingHash(s) == HashFrom(<<0, 0>>, s, 1)

\* Math.abs(hash) of a 32-bit integer, as an unsigned pair
AbsHash(h) ==
  IF h[1] < 32768 THEN h
  ELSE IF h[2] = 0 THEN <<(65536 - h[1]) % 65536, 0>>
  ELSE <<65535 - h[1], 65536 - h[2]>>

\* Math.abs(hash).toString(36): the rendering is one-to-one, so the pair
\* stands for the string
HashString(s) == AbsHash(RollingHash(s))

\* ------------------------------------------------ validateGameSession
ExpectedBoardSizes ==
  [beginner |-> [width |-> 9, height |-> 9, mines |-> 10],
   intermediate |-> [width |-> 16, height |-> 16, mines |-> 40],
   expert |-> [width |-> 30, height |-> 16, mines |-> 99]]
MinMoves == [beginner |-> 8, intermediate |-> 15, expert |-> 25]

\* new Date(timestamp).getTime(): a timestamp is [kind, ms], kind "iso" for a
\* date string, "garbage" for a string that is no date, "empty" for ""
DateGetTime(ts) == IF ts.kind = "iso" THEN Fin(ts.ms) ELSE NaN

Invalid(reason, severity) ==
  [valid |-> FALSE, reason |-> reason, severity |-> severity]
Valid == [valid |-> TRUE, reason |-> "ok", severity |-> "none"]

Has(gameData, field) == field \in gameData.fields

\* the board of the claim against expectedBoardSizes[gameData.difficulty],
\* without and with the number of mines
BoardMismatchNoMines(g) ==
  LET expected == ExpectedBoardSizes[g.difficulty]
  IN  \/ ~Has(g, "difficulty") \/ g.difficulty \notin Difficulties
      \/ g.boardSize.width # expected.width
      \/ g.boardSize.height # expected.height
BoardMismatch(g) ==
  LET expected == ExpectedBoardSizes[g.difficulty]
  IN  \/ ~Has(g, "difficulty") \/ g.difficulty \notin Difficulties
      \/ g.boardSize.width # expected.width
      \/ g.boardSize.height # expected.height
      \/ ~Has(g, "mineCount") \/ g.mineCount # expected.mines

validateGameSession(gameData, t) ==
  LET g == gameData
      gameStartTime == DateGetTime(g.timestamp)
      time == ToNumber(g.time)
      durationMs == g.gameEndTime - g.firstClickTime
  IN  IF ~g.present THEN Invalid("bad_format", "critical")
      ELSE IF \/ ~Has(g, "gameId") \/ g.gameId = ""
              \/ ~Has(g, "timestamp") \/ g.timestamp.kind = "empty"
              \/ ~Has(g, "boardSize") \/ ~g.boardSize.present
              \/ ~Has(g, "gameEndTime") \/ g.gameEndTime = 0
              \/ ~Has(g, "firstClickTime") \/ g.firstClickTime = 0
        THEN Invalid("missing_session_info", "critical")
      ELSE IF ~Has(g, "gameState") \/ g.gameState # "won"
        THEN Invalid("not_won", "high")
      ELSE IF gameStartTime.fin = "fin" /\ t - gameStartTime.ms > SessionMaxAgeMs
        THEN Invalid("session_expired", "medium")
      ELSE IF Has(g, "time") /\ time.fin = "fin"
              /\ Abs(durationMs - time.ms) > DurationSlackS * 1000
        THEN Invalid("duration_mismatch", "high")
      ELSE IF BoardMismatch(g)
        THEN Invalid("board_mismatch", "critical")
      ELSE IF Has(g, "moves") /\ g.moves < MinMoves[g.difficulty]
        THEN Invalid("too_few_moves", "critical")
      ELSE IF Has(g, "moves") /\ g.moves > g.boardSize.width * g.boardSize.height * 2
        THEN Invalid("too_many_moves", "medium")
      \* time / moves < 0.05
      ELSE IF Has(g, "time") /\ Has(g, "moves") /\ time.fin = "fin"
              /\ time.ms * 20 < g.moves * 1000
        THEN Invalid("too_fast_per_move", "critical")
      \* time / moves > 60
      ELSE IF Has(g, "time") /\ Has(g, "moves") /\ time.fin = "fin"
              /\ time.ms > 60 * g.moves * 1000
        THEN Invalid("too_slow_per_move", "low")
      ELSE Valid

\* ---------------------------------------- validateScoreReasonableness
MinTimesMs == [beginner |-> 1000, intermediate |-> 3000, expert |-> 5000]
MaxReasonableTimesMs ==
  [beginner |-> 999000, intermediate |-> 1999000, expert |-> 2999000]
WorldRecordsMs == [beginner |-> 490, intermediate |-> 7030, expert |-> 31133]

\* the same without the comparison with the world record
validateScoreNoRecord(time, difficulty, gameData, t) ==
  LET gameValidation == validateGameSession(gameData, t)
      n == ToNumber(time)
  IN  IF gameData.present /\ ~gameValidation.valid
        THEN Invalid(gameValidation.reason, "critical")
      ELSE IF NumLt(n, Fin(MinTimesMs[difficulty]))
        THEN Invalid("too_fast", "high")
      ELSE IF NumGt(n, Fin(MaxReasonableTimesMs[difficulty]))
        THEN Invalid("too_slow", "low")
      ELSE IF IsIntegerV(time) /\ NumLt(n, Fin(2 * WorldRecordsMs[difficulty]))
        THEN Invalid("suspicious_round_time", "medium")
      ELSE Valid

\* the same with the bounds of the time looked at before the session
validateScoreRangeFirst(time, difficulty, gameData, t) ==
  LET gameValidation == validateGameSession(gameData, t)
      n == ToNumber(time)
  IN  IF NumLt(n, Fin(MinTimesMs[difficulty]))
        THEN Invalid("too_fast", "high")
      ELSE IF NumGt(n, Fin(MaxReasonableTimesMs[difficulty]))
        THEN Invalid("too_slow", "low")
      ELSE IF gameData.present /\ ~gameValidation.valid
        THEN Invalid(gameValidation.reason, "critical")
      ELSE IF NumLt(n, Fin(WorldRecordsMs[difficulty]))
        THEN Invalid("beats_world_record", "critical")
      ELSE IF IsIntegerV(time) /\ NumLt(n, Fin(2 * WorldRecordsMs[difficulty]))
        THEN Invalid("suspicious_round_time", "medium")
      ELSE Valid

validateScoreReasonableness(time, difficulty, gameData, t) ==
  LET gameValidation == validateGameSession(gameData, t)
      n == ToNumber(time)
  IN  IF gameData.present /\ ~gameValidation.valid
        THEN Invalid(gameValidation.reason, "critical")
      ELSE IF NumLt(n, Fin(MinTimesMs[difficulty]))
        THEN Invalid("too_fast", "high")
      ELSE IF NumGt(n, Fin(MaxReasonableTimesMs[difficulty]))
        THEN Invalid("too_slow", "low")
      ELSE IF NumLt(n, Fin(WorldRecordsMs[difficulty]))
        THEN Invalid("beats_world_record", "critical")
      ELSE IF IsIntegerV(time) /\ NumLt(n, Fin(2 * WorldRecordsMs[difficulty]))
        THEN Invalid("suspicious_round_time", "medium")
      ELSE Valid

\* =================================================================
\* State
\* =================================================================
VARIABLES
  now,         \* Date.now()
  ticks,       \* clock advances taken
  started,     \* requests started
  rateCount,   \* store, 'security:rate_limit:...': key -> [count, exp]
  userStats,   \* store, 'security:user_stats:<username>:<difficulty>'
  tiers,       \* store, 'leaderboard:<difficulty>': the stored list
  cache,       \* globalCache: key -> [data, expiry]
  heap,        \* statistics objects held by the cache and by requests
  req,         \* request handlers in flight: position and locals
  submitted,   \* history: lowest time each user submitted to a tier write
  accepted,    \* history: (difficulty, gameId) of the accept-path writes
  arrived,     \* history: requests that reached checkRateLimit, per
               \* fingerprint and window
  usedTokens,  \* store, 'security:used_token:<token>': token -> [exp]
  adm,         \* the admin request in flight: position, token, outcome
  acceptCount, \* history: how often validateAdminToken accepted a token
  admOther,    \* an admin request handled beside the first
  ADMIN_KEY,   \* env.ADMIN_KEY, the empty string when it is not set
  kv,          \* store, the keys of callers of KVStorageManager: key -> [data, exp]
  op,          \* the last call of a function or of the store adapter: what
               \* was called, with what, and what it returned
  optimizer,   \* a ConcurrencyOptimizer: its fields and the tasks given to it
  game         \* the page's MinesweeperGame

adminVars == <<usedTokens, adm, acceptCount, admOther>>
extVars == <<ADMIN_KEY, kv, op, optimizer, game>>

vars ==
  <<now, ticks, started, rateCount, userStats, tiers, cache, heap, req,
    submitted, accepted, arrived, adminVars, extVars>>

\* Request handlers: two may run at the same time.
Slots == {1, 2}

EmptyMap == [x \in {} |-> 0]
Put(f, k, v) == [x \in DOMAIN f \cup {k} |-> IF x = k THEN v ELSE f[x]]
Remove(f, k) == [x \in DOMAIN f \ {k} |-> f[x]]
\* the store drops a key once its expirationTtl has passed
Live(f, t) == [x \in {k \in DOMAIN f : f[k].exp > t} |-> f[x]]

\* ---------------------------------------------------- the leaderboard
ScoreRecord(username, time, gameId) ==
  [username |-> username, time |-> time, gameId |-> gameId]

\* the first index whose record satisfies Test, 0 for findIndex's -1
FindIndex(list, Test(_)) ==
  IF \E i \in 1..Len(list) : Test(list[i])
    THEN CHOOSE i \in 1..Len(list) :
           Test(list[i]) /\ \A j \in 1..(i - 1) : ~Test(list[j])
  ELSE 0

\* Array.prototype.sort((a, b) => a.time - b.time): a stable sort
InsertByTime(sorted, rec) ==
  LET k == Cardinality({i \in 1..Len(sorted) : sorted[i].time <= rec.time})
  IN  SubSeq(sorted, 1, k) \o <<rec>> \o SubSeq(sorted, k + 1, Len(sorted))

RECURSIVE SortByTime(_)
SortByTime(list) ==
  IF list = <<>> THEN <<>>
  ELSE InsertByTime(SortByTime(SubSeq(list, 1, Len(list) - 1)), list[Len(list)])

\* leaderboard.slice(0, 20)
Top20Uncut(list) == list
Top20(list) == SubSeq(list, 1, Min(TopN, Len(list)))

\* ------------------------------------------------------- the requests
\* generateClientFingerprint: the hash of ip:userAgent:language:encoding,
\* the last two headers empty
generateClientFingerprint(r) ==
  HashString(r.ip \o <<":">> \o r.ua \o <<":", ":">>)

RateLimitConfig(r, minute) ==
  <<[key |-> <<"ip", r.ip, minute>>, limit |-> IpLimit, type |-> "ip"],
    [key |-> <<"fingerprint", generateClientFingerprint(r), minute>>,
     limit |-> FingerprintLimit, type |-> "fingerprint"],
    [key |-> <<"global", <<>>, minute>>, limit |-> GlobalLimit, type |-> "global"]>>

\* the loop over checkResults: some scope is at or above its limit
OverLimitStrict(counts, config) == \E i \in 1..3 : counts[i] > config[i].limit
OverLimit(counts, config) == \E i \in 1..3 : counts[i] >= config[i].limit

\* fingerprintResult.limit - fingerprintResult.count - 1
RemainingQuotaOffByOne(limit, count) == limit - count
RemainingQuota(limit, count) == limit - count - 1

\* env.LEADERBOARD.get of a counter: current ? parseInt(current) : 0
CounterGet(key) == IF key \in DOMAIN rateCount THEN rateCount[key].count ELSE 0

\* The claim the client of src/src/optimized.js builds for a game it won:
\* a request names difficulty, username, time, gameId and one departure
\* from that claim (tweak).
SecondsOf(time) ==
  LET n == ToNumber(time) IN IF n.fin = "fin" THEN n.ms \div 1000 ELSE 0

GameData(r, t) ==
  LET d == IF r.difficulty \in Difficulties THEN r.difficulty ELSE "beginner"
      secs == SecondsOf(r.time)
      board == ExpectedBoardSizes[d]
  IN  [present |-> r.tweak # "no_game_data",
       fields |-> IF r.tweak = "no_moves_field"
                    THEN RequiredFields \ {"moves"} ELSE RequiredFields,
       difficulty |-> d,
       time |-> r.time,
       moves |-> Max(MinMoves[d], (secs + 59) \div 60),
       gameId |-> r.gameId,
       timestamp |-> [kind |-> "iso", ms |-> t - secs * 1000 - 1000],
       boardSize |-> [present |-> TRUE,
                      width |-> IF r.tweak = "wrong_board" THEN board.width + 1
                                ELSE board.width,
                      height |-> board.height],
       mineCount |-> board.mines,
       gameEndTime |-> t,
       firstClickTime |-> t - secs * 1000,
       gameState |-> IF r.tweak = "lost" THEN "lost" ELSE "won"]

NoResp ==
  [status |-> 0, code |-> "none", improved |-> "na", rank |-> 0,
   rankNull |-> FALSE, currentBest |-> 0, data |-> <<>>]
Error(status, code) == [NoResp EXCEPT !.status = status, !.code = code]

NoRate == [allowed |-> FALSE, remaining |-> 0, reason |-> "none"]
NoReq ==
  [method |-> "NONE", difficulty |-> "beginner", ip |-> <<>>, ua |-> <<>>,
   username |-> <<>>, time |-> NullV, gameId |-> <<>>, tweak |-> "none"]
NoGame == GameData(NoReq, 0)

IdleSlot ==
  [pc |-> "idle", r |-> NoReq, game |-> NoGame, minute |-> 0,
   counts |-> <<0, 0, 0>>, rate |-> NoRate, statsRef |-> 0, lb |-> <<>>,
   top20 |-> <<>>, resp |-> NoResp]

\* the handler returns: the locals die, the request and its outcome stay to
\* be read
Respond(slot, resp) ==
  [IdleSlot EXCEPT !.r = slot.r, !.rate = slot.rate, !.resp = resp]

\* ------------------------------------------------ behaviour statistics
DefaultStats ==
  [submissions |-> 0, bestTime |-> NullV, totalTime |-> NumV(0),
   lastSubmission |-> 0, suspiciousCount |-> 0]

\* String(x) of a whole number or a string
ToStr(x) == IF x.typ = "string" THEN x.str ELSE IntToStr(x.num.ms \div 1000)

\* a + b: a sum of two numbers, a concatenation when either is a string
JsAdd(a, b) ==
  IF a.typ = "number" /\ b.typ = "number" THEN NumV(a.num.ms + b.num.ms)
  ELSE StrV(ToStr(a) \o ToStr(b))

\* a value in a condition: null, 0, NaN and "" are false
Truthy(x) ==
  CASE x.typ = "number" -> x.num.fin # "nan" /\ ~(x.num.fin = "fin" /\ x.num.ms = 0)
    [] x.typ = "string" -> x.str # <<>>
    [] OTHER -> FALSE

\* Math.min(a, b)
JsMin(a, b) ==
  LET x == ToNumber(a)
      y == ToNumber(b)
  IN  IF x.fin = "nan" \/ y.fin = "nan" THEN [NumV(0) EXCEPT !.num = NaN]
      ELSE IF NumLt(y, x) THEN [NumV(0) EXCEPT !.num = y]
      ELSE [NumV(0) EXCEPT !.num = x]

StatsKey(username, difficulty) == <<"security", "user_stats", username, difficulty>>
\* CacheManager.createCacheKey('kv', key)
KvCacheKey(key) == <<"kv">> \o key
TierKey(difficulty) == <<"leaderboard", difficulty>>

NewRef == CHOOSE i \in 1..(Cardinality(DOMAIN heap) + 1) : i \notin DOMAIN heap

\* the statistics objects something still refers to
Referenced(c, q) ==
  {c[k].data : k \in {x \in DOMAIN c : x[2] = "security"}}
    \cup {q[s].statsRef : s \in {x \in Slots : q[x].statsRef # 0}}
Collect(h, c, q) == [i \in DOMAIN h \cap Referenced(c, q) |-> h[i]]

\* CacheManager.get: the entry's data, unless it is missing or expired
CacheHit(key, t) == key \in DOMAIN cache /\ ~(t > cache[key].expiry)
\* an expired entry is deleted by the get that finds it
CacheAfterGet(key, t) ==
  IF key \in DOMAIN cache /\ t > cache[key].expiry THEN Remove(cache, key) ELSE cache
\* CacheManager.set(key, data, ttl)
CacheSet(c, key, data, ttl, t) == Put(c, key, [data |-> data, expiry |-> t + ttl])

\* =================================================================
\* Actions
\* =================================================================
\* A request arrives (fetch, handleLeaderboardAPI): the difficulty of the path
\* is checked, then checkRateLimit reads the three counters and decides.
Start(s, r, budget) ==
  LET minute == now \div WindowMs
      config == RateLimitConfig(r, minute)
      counts == [i \in 1..3 |-> CounterGet(config[i].key)]
      slot == [IdleSlot EXCEPT !.r = r, !.game = GameData(r, now)]
      limited == r.difficulty \in Difficulties
      who == <<generateClientFingerprint(r), minute>>
  IN  /\ req[s].pc = "idle"
      \* handlers are interchangeable: a request takes the first free one
      /\ \A other \in 1..(s - 1) : req[other].pc # "idle"
      /\ started < budget
      /\ started' = started + 1
      /\ req' = [req EXCEPT ![s] =
           IF r.difficulty \notin Difficulties
             THEN Respond(slot, Error(400, "INVALID_DIFFICULTY"))
           ELSE IF OverLimit(counts, config)
             \* logSecurityEvent is not defined: the call throws and
             \* handleAsyncError answers with checkRateLimit's fallback
             THEN Respond([slot EXCEPT !.rate = [allowed |-> FALSE, remaining |-> 0,
                                                 reason |-> "system_busy"]],
                          Error(429, "RATE_LIMIT_EXCEEDED"))
           ELSE [slot EXCEPT !.pc = "rl_write", !.minute = minute,
                             !.counts = counts]]
      /\ arrived' = IF limited
                       THEN Put(arrived, who,
                                IF who \in DOMAIN arrived THEN arrived[who] + 1 ELSE 1)
                     ELSE arrived
      /\ UNCHANGED <<now, ticks, rateCount, userStats, tiers, cache, heap,
                     submitted, accepted, adminVars, extVars>>

\* (result.count + 1): the count this request read, plus one; and the same
\* taken from the count the store holds at the time of the put
IncrementStored(count, key) == CounterGet(key) + 1
Increment(count, key) == count + 1

\* checkRateLimit: the three counters are written, each as read plus one
RLWrite(s) ==
  LET slot == req[s]
      config == RateLimitConfig(slot.r, slot.minute)
      keys == {config[i].key : i \in 1..3}
      idx(k) == CHOOSE i \in 1..3 : config[i].key = k
  IN  /\ slot.pc = "rl_write"
      /\ rateCount' =
           [k \in DOMAIN rateCount \cup keys |->
              IF k \in keys
                THEN [count |-> Increment(slot.counts[idx(k)], k),
                      exp |-> now + CounterTtlS * 1000]
              ELSE rateCount[k]]
      /\ req' = [req EXCEPT ![s] =
           [slot EXCEPT !.pc = CASE slot.r.method = "POST" -> "stats_get"
                                  [] slot.r.method = "GET" -> "get_cache"
                                  [] slot.r.method = "OPTIONS" -> "options"
                                  [] OTHER -> "other_method",
                        !.counts = <<0, 0, 0>>,
                        !.rate = [allowed |-> TRUE,
                                  remaining |-> RemainingQuota(config[2].limit,
                                                               slot.counts[2]),
                                  reason |-> "none"]]]
      /\ UNCHANGED <<now, ticks, started, userStats, tiers, cache, heap,
                     submitted, accepted, arrived, adminVars, extVars>>

\* a method that is neither GET, POST nor OPTIONS
\* checkRateLimit when env.LEADERBOARD.get of a counter throws: Promise.all
\* rejects, handleAsyncError answers with the fallback and the handler with
\* 429; nothing was put
StartReadFails(s, r, budget) ==
  LET minute == now \div WindowMs
      slot == [IdleSlot EXCEPT !.r = r, !.game = GameData(r, now)]
      who == <<generateClientFingerprint(r), minute>>
  IN  /\ req[s].pc = "idle"
      /\ \A other \in 1..(s - 1) : req[other].pc # "idle"
      /\ r.difficulty \in Difficulties
      /\ started < budget
      /\ started' = started + 1
      /\ req' = [req EXCEPT ![s] =
           Respond([slot EXCEPT !.rate = [allowed |-> FALSE, remaining |-> 0,
                                          reason |-> "system_busy"]],
                   Error(429, "RATE_LIMIT_EXCEEDED"))]
      /\ arrived' = Put(arrived, who,
                        IF who \in DOMAIN arrived THEN arrived[who] + 1 ELSE 1)
      /\ UNCHANGED <<now, ticks, rateCount, userStats, tiers, cache, heap,
                     submitted, accepted, adminVars, extVars>>

\* checkRateLimit when env.LEADERBOARD.put throws for the counters in
\* failing: the three puts were started together, Promise.all rejects with
\* the first failure and the request is answered 429 with the fallback; of
\* the other puts those in written reach the store, the rest are dropped
\* with the request
RLWriteFails(s, failing, written) ==
  LET slot == req[s]
      config == RateLimitConfig(slot.r, slot.minute)
      keys == {config[i].key : i \in written}
      idx(k) == CHOOSE i \in 1..3 : config[i].key = k
  IN  /\ slot.pc = "rl_write"
      /\ failing # {}
      /\ written \subseteq (1..3) \ failing
      /\ rateCount' =
           [k \in DOMAIN rateCount \cup keys |->
              IF k \in keys
                THEN [count |-> Increment(slot.counts[idx(k)], k),
                      exp |-> now + CounterTtlS * 1000]
              ELSE rateCount[k]]
      /\ req' = [req EXCEPT ![s] =
           Respond([slot EXCEPT !.rate = [allowed |-> FALSE, remaining |-> 0,
                                          reason |-> "system_busy"]],
                   Error(429, "RATE_LIMIT_EXCEEDED"))]
      /\ UNCHANGED <<now, ticks, started, userStats, tiers, cache, heap,
                     submitted, accepted, arrived, adminVars, extVars>>

OtherMethod(s) ==
  /\ req[s].pc = "other_method"
  /\ req' = [req EXCEPT ![s] = Respond(req[s], Error(405, "METHOD_NOT_ALLOWED"))]
  /\ UNCHANGED <<now, ticks, started, rateCount, userStats, tiers, cache, heap,
                 submitted, accepted, arrived, adminVars, extVars>>

\* the CORS preflight: headers and no body
Options(s) ==
  /\ req[s].pc = "options"
  /\ req' = [req EXCEPT ![s] = Respond(req[s], [NoResp EXCEPT !.status = 200,
                                                              !.code = "ok"])]
  /\ UNCHANGED <<now, ticks, started, rateCount, userStats, tiers, cache, heap,
                 submitted, accepted, arrived, adminVars, extVars>>

\* The GET branch up to safeGet's read of the store: globalCache.get of
\* 'leaderboard:<difficulty>' (no code sets that key, so there is never an
\* ETag to compare), then safeGet's look into the cache, which answers the
\* request when it holds the tier.
Success(data) == [NoResp EXCEPT !.status = 200, !.code = "ok", !.data = data]

GetCache(s) ==
  LET slot == req[s]
      key == TierKey(slot.r.difficulty)
      cacheKey == KvCacheKey(key)
      looked == {key, cacheKey}
      cache1 == [k \in {x \in DOMAIN cache : ~(x \in looked /\ now > cache[x].expiry)}
                   |-> cache[k]]
  IN  /\ slot.pc = "get_cache"
      /\ cache' = cache1
      /\ req' = [req EXCEPT ![s] =
           IF CacheHit(cacheKey, now) THEN Respond(slot, Success(cache[cacheKey].data))
           ELSE [slot EXCEPT !.pc = "get_read"]]
      /\ UNCHANGED <<now, ticks, started, rateCount, userStats, tiers, heap,
                     submitted, accepted, arrived, adminVars, extVars>>

\* safeGet: this.kv.get(key) returns what the store holds (no list when the
\* key is absent)
GetRead(s) ==
  /\ req[s].pc = "get_read"
  /\ req' = [req EXCEPT ![s] = [req[s] EXCEPT !.pc = "get_set",
                                              !.lb = tiers[req[s].r.difficulty]]]
  /\ UNCHANGED <<now, ticks, started, rateCount, userStats, tiers, cache, heap,
                 submitted, accepted, arrived, adminVars, extVars>>

\* safeGet after the read: a value is cached for 30 s, an absent key gives
\* the default []; the response carries the list
GetSet(s) ==
  LET slot == req[s]
      cacheKey == KvCacheKey(TierKey(slot.r.difficulty))
  IN  /\ slot.pc = "get_set"
      /\ cache' = IF slot.lb # <<>>
                    THEN CacheSet(cache, cacheKey, slot.lb, GetCacheTtlMs, now)
                  ELSE cache
      /\ req' = [req EXCEPT ![s] = Respond(slot, Success(slot.lb))]
      /\ UNCHANGED <<now, ticks, started, rateCount, userStats, tiers, heap,
                     submitted, accepted, arrived, adminVars, extVars>>

\* The POST branch up to analyzeUserBehavior's safeGet: the body is checked
\* (DataValidator, validateScoreReasonableness), then the statistics are
\* taken from the cache or read from the store.
NoValidationError(slot, t) == "none"
ValidationError(slot, t) ==
  LET r == slot.r
      g == slot.game
      usernameResult == validateUsername(r.username)
      timeResult == validateTime(r.time)
      difficultyResult == validateDifficulty(r.difficulty)
      gameDataResult == validateGameDataStructure(g)
  IN  IF ~g.present THEN "MISSING_GAME_DATA"
      ELSE IF ~usernameResult.valid THEN "INVALID_USERNAME"
      ELSE IF ~timeResult.valid THEN "INVALID_TIME"
      ELSE IF ~difficultyResult.valid THEN "INVALID_DIFFICULTY"
      ELSE IF ~gameDataResult.valid THEN "INVALID_GAME_DATA"
      ELSE IF ~validateScoreReasonableness(r.time, r.difficulty, g, t).valid
        THEN "UNREASONABLE_SCORE"
      ELSE "none"

StatsGet(s) ==
  LET slot == req[s]
      key == StatsKey(slot.r.username, slot.r.difficulty)
      cacheKey == KvCacheKey(key)
      error == ValidationError(slot, now)
      stored == key \in DOMAIN userStats
      ref == IF CacheHit(cacheKey, now) THEN cache[cacheKey].data ELSE NewRef
      cache1 == CacheAfterGet(cacheKey, now)
      cache2 == IF ~CacheHit(cacheKey, now) /\ stored
                  THEN CacheSet(cache1, cacheKey, ref, DefaultCacheTtlMs, now)
                ELSE cache1
      heap1 == IF CacheHit(cacheKey, now) THEN heap
               ELSE Put(heap, ref, IF stored THEN userStats[key].data
                                   ELSE DefaultStats)
      req1 == [req EXCEPT ![s] = [slot EXCEPT !.pc = "stats_put",
                                              !.statsRef = ref]]
  IN  /\ slot.pc = "stats_get"
      /\ IF error # "none"
           THEN /\ req' = [req EXCEPT ![s] = Respond(slot, Error(400, error))]
                /\ UNCHANGED <<cache, heap>>
         ELSE /\ req' = req1
              /\ cache' = cache2
              /\ heap' = Collect(heap1, cache2, req1)
      /\ UNCHANGED <<now, ticks, started, rateCount, userStats, tiers,
                     submitted, accepted, arrived, adminVars, extVars>>

\* stats.suspiciousCount > behaviorConfig.maxSuspiciousCount, and the same
\* never true
NeverBlock(count) == FALSE
TemporaryBlock(count) == count > MaxSuspiciousCount

\* timeSinceLastSubmission < behaviorConfig.frequentSubmissionWindow, and the
\* same with <=
FrequentOrJustOver(stats, t) ==
  /\ stats.lastSubmission # 0
  /\ t - stats.lastSubmission <= FrequentWindowS * 1000
Frequent(stats, t) ==
  /\ stats.lastSubmission # 0
  /\ t - stats.lastSubmission < FrequentWindowS * 1000

\* analyzeUserBehavior after safeGet: the object is changed in place, the
\* request is blocked or the statistics are put to the store.
StatsPut(s) ==
  LET slot == req[s]
      r == slot.r
      key == StatsKey(r.username, r.difficulty)
      stats == heap[slot.statsRef]
      frequent == Frequent(stats, now)
      counted == [stats EXCEPT !.suspiciousCount =
                    IF frequent THEN @ + 1 ELSE Max(0, @ - 1)]
      blocked == frequent /\ TemporaryBlock(counted.suspiciousCount)
      updated == [counted EXCEPT
                    !.submissions = @ + 1,
                    !.totalTime = JsAdd(@, r.time),
                    !.bestTime = IF Truthy(@) THEN JsMin(@, r.time) ELSE r.time,
                    !.lastSubmission = now]
      req1 == [req EXCEPT ![s] = Respond(slot, Error(429, "SUSPICIOUS_BEHAVIOR"))]
      req2 == [req EXCEPT ![s] = [slot EXCEPT !.pc = "tier_read"]]
  IN  /\ slot.pc = "stats_put"
      /\ IF blocked
           THEN /\ req' = req1
                /\ heap' = Collect(Put(heap, slot.statsRef, counted), cache, req1)
                /\ UNCHANGED userStats
         ELSE /\ req' = req2
              /\ heap' = Put(heap, slot.statsRef, updated)
              /\ userStats' = Put(userStats, key,
                                  [data |-> updated, exp |-> now + StatsTtlS * 1000])
      /\ UNCHANGED <<now, ticks, started, rateCount, tiers, cache,
                     submitted, accepted, arrived, adminVars, extVars>>

\* env.LEADERBOARD.get('leaderboard:' + difficulty), and a read that takes
\* the adapter's cached copy when there is one
CachedTier(difficulty) ==
  IF CacheHit(KvCacheKey(TierKey(difficulty)), now)
    THEN cache[KvCacheKey(TierKey(difficulty))].data
  ELSE tiers[difficulty]
StoredTier(difficulty) == tiers[difficulty]

\* safePut after its store write: the object replaces the cache entry; then
\* the handler reads the tier from the store
TierRead(s) ==
  LET slot == req[s]
      r == slot.r
      cacheKey == KvCacheKey(StatsKey(r.username, r.difficulty))
      cache1 == CacheSet(cache, cacheKey, slot.statsRef,
                         Min(StatsTtlS * 1000, CacheCapMs), now)
      req1 == [req EXCEPT ![s] = [slot EXCEPT !.pc = "tier_put", !.statsRef = 0,
                                              !.lb = StoredTier(r.difficulty)]]
  IN  /\ slot.pc = "tier_read"
      /\ cache' = cache1
      /\ req' = req1
      /\ heap' = Collect(heap, cache1, req1)
      /\ UNCHANGED <<now, ticks, started, rateCount, userStats, tiers,
                     submitted, accepted, arrived, adminVars, extVars>>

\* The accept path between its read of the tier and its write: the duplicate
\* check, the user's record replaced or appended, the list sorted and cut,
\* and the put to the store.
AcceptListAppend(lb, rec) == Append(lb, rec)
AcceptList(lb, rec) ==
  LET existingIndex == FindIndex(lb, LAMBDA x : x.username = rec.username)
  IN  IF existingIndex # 0 THEN [lb EXCEPT ![existingIndex] = rec]
      ELSE Append(lb, rec)

\* const leaderboard: the list this request parsed from its read of the
\* tier; and the list the store holds at the time of the write
LeaderboardNow(slot) == tiers[slot.r.difficulty]
Leaderboard(slot) == slot.lb

TierPut(s) ==
  LET slot == req[s]
      r == slot.r
      lb == Leaderboard(slot)
      trimmedUsername == Trim(r.username)
      newTime == ParseIntV(r.time).ms \div 1000
      scoreRecord == ScoreRecord(trimmedUsername, newTime, slot.game.gameId)
      duplicate == FindIndex(lb, LAMBDA x : x.gameId = slot.game.gameId) # 0
      existingIndex == FindIndex(lb, LAMBDA x : x.username = trimmedUsername)
      notImproved == existingIndex # 0 /\ ~(newTime < lb[existingIndex].time)
      currentRank == FindIndex(Top20(lb), LAMBDA x : x.username = trimmedUsername)
      top20 == Top20(SortByTime(AcceptList(lb, scoreRecord)))
      who == <<r.difficulty, trimmedUsername>>
  IN  /\ slot.pc = "tier_put"
      /\ IF duplicate
           THEN /\ req' = [req EXCEPT ![s] = Respond(slot, Error(400, "DUPLICATE_GAME"))]
                /\ UNCHANGED <<tiers, submitted, accepted>>
         ELSE IF notImproved
           THEN /\ req' = [req EXCEPT ![s] = Respond(slot,
                     [NoResp EXCEPT !.status = 200, !.code = "ok", !.improved = "no",
                                    !.currentBest = lb[existingIndex].time,
                                    !.rank = currentRank,
                                    !.rankNull = ~(currentRank > 0)])]
                /\ UNCHANGED <<tiers, submitted, accepted>>
         ELSE /\ req' = [req EXCEPT ![s] = [slot EXCEPT !.pc = "tier_done",
                                                        !.lb = <<>>, !.top20 = top20]]
              /\ tiers' = [tiers EXCEPT ![r.difficulty] = top20]
              /\ submitted' = Put(submitted, who,
                   IF who \in DOMAIN submitted
                     THEN Min(submitted[who], SecondsOf(r.time))
                   ELSE SecondsOf(r.time))
              /\ accepted' = accepted \cup {<<r.difficulty, slot.game.gameId>>}
      /\ UNCHANGED <<now, ticks, started, rateCount, userStats, cache, heap,
                     arrived, adminVars, extVars>>

\* after the write: both cache entries of the tier are deleted and the
\* success response is built
TierDone(s) ==
  LET slot == req[s]
      r == slot.r
      trimmedUsername == Trim(r.username)
      rank == FindIndex(slot.top20, LAMBDA x : x.username = trimmedUsername)
  IN  /\ slot.pc = "tier_done"
      /\ cache' = Remove(Remove(cache, TierKey(r.difficulty)),
                         KvCacheKey(TierKey(r.difficulty)))
      /\ req' = [req EXCEPT ![s] = Respond(slot,
           [NoResp EXCEPT !.status = 200, !.code = "ok", !.rank = rank])]
      /\ UNCHANGED <<now, ticks, started, rateCount, userStats, tiers, heap,
                     submitted, accepted, arrived, adminVars, extVars>>

\* time passes; the store drops the keys whose expiry has come
Tick(d, budget) ==
  /\ ticks < budget
  /\ ticks' = ticks + 1
  /\ now' = now + d
  /\ rateCount' = Live(rateCount, now + d)
  /\ userStats' = Live(userStats, now + d)
  /\ usedTokens' = Live(usedTokens, now + d)
  /\ kv' = [x \in {k \in DOMAIN kv : kv[k].exp = 0 \/ kv[k].exp > now + d} |-> kv[x]]
  /\ UNCHANGED <<started, tiers, cache, heap, req, submitted, accepted, arrived,
                 adm, acceptCount, admOther, ADMIN_KEY, game, op, optimizer>>

\* ------------------------------------------------------ admin tokens
\* env.ADMIN_KEY, 32 characters long
AdminKey == [i \in 1..32 |-> "k"]

\* A token is what atob and split(':') make of it: parts is the number of
\* parts (0 when atob throws), timestampStr and signature the first two.
Token(parts, timestampStr, signature) ==
  [parts |-> parts, timestampStr |-> timestampStr, signature |-> signature]
NoToken == Token(0, <<>>, <<0, 0>>)

generateTokenSignature(timestampStr, adminKey) ==
  HashString(timestampStr \o <<":">> \o adminKey)

\* both are strings of the same rendering: equal length and no differing
\* character is equality
secureCompare(a, b) == a = b

\* tokenAge > 300000 || tokenAge < 0, false for a NaN age
TokenExpiredAtLimit(timestamp, t) ==
  /\ ~timestamp.nan
  /\ (t - timestamp.n >= TokenMaxAgeMs \/ t - timestamp.n < 0)
TokenExpired(timestamp, t) ==
  /\ ~timestamp.nan
  /\ (t - timestamp.n > TokenMaxAgeMs \/ t - timestamp.n < 0)

\* the admin request: bearer says whether it carried 'Bearer <token>', status
\* is the status of its response (401 when the token is refused, 200 when the
\* action asked for is then carried out)
IdleAdmin ==
  [pc |-> "idle", token |-> NoToken, valid |-> FALSE, reason |-> "none",
   status |-> 0, bearer |-> FALSE]
AdminResult(token, valid, reason) ==
  [pc |-> "idle", token |-> token, valid |-> valid, reason |-> reason,
   status |-> IF valid THEN 200 ELSE 401, bearer |-> TRUE]

\* !adminKey || adminKey.length < 32, and the same never true
KeyAlwaysUsable(key) == FALSE
KeyUnusable(key) == key = <<>> \/ Len(key) < MinKeyLen

\* handleAdminAPI answers before it looks at a token: 401 without a Bearer
\* header, 500 when the key is not set or too short
AdminRefuse(bearer, token, budget) ==
  /\ adm.pc = "idle"
  /\ started < budget
  /\ ~bearer \/ KeyUnusable(ADMIN_KEY)
  /\ bearer \/ token = NoToken
  /\ started' = started + 1
  /\ adm' = IF ~bearer
              THEN [IdleAdmin EXCEPT !.reason = "UNAUTHORIZED", !.status = 401]
            ELSE [IdleAdmin EXCEPT !.reason = "SERVER_ERROR", !.status = 500,
                                   !.bearer = TRUE, !.token = token]
  /\ UNCHANGED <<now, ticks, rateCount, userStats, tiers, cache, heap, req,
                 submitted, accepted, arrived, usedTokens, acceptCount, admOther,
                 extVars>>

\* handleAdminAPI with a Bearer token and a usable key: validateAdminToken
\* up to its read of the used-token marker
TokenChecked(token) ==
  LET timestamp == ParseIntWhole(token.timestampStr)
      expectedSignature == generateTokenSignature(token.timestampStr, ADMIN_KEY)
  IN  IF token.parts = 0 THEN AdminResult(token, FALSE, "invalid_token_format")
      ELSE IF token.parts # 2
        THEN AdminResult(token, FALSE, "invalid_token_structure")
      ELSE IF TokenExpired(timestamp, now)
        THEN AdminResult(token, FALSE, "token_expired")
      ELSE IF ~secureCompare(token.signature, expectedSignature)
        THEN AdminResult(token, FALSE, "invalid_signature")
      ELSE IF token \in DOMAIN usedTokens
        THEN AdminResult(token, FALSE, "token_already_used")
      ELSE [AdminResult(token, FALSE, "none") EXCEPT !.pc = "token_put",
                                                     !.status = 0]

AdminStart(token, budget) ==
  /\ adm.pc = "idle"
  /\ ~KeyUnusable(ADMIN_KEY)
  /\ started < budget
  /\ started' = started + 1
  /\ adm' = TokenChecked(token)
  /\ UNCHANGED <<now, ticks, rateCount, userStats, tiers, cache, heap, req,
                 submitted, accepted, arrived, usedTokens, acceptCount, admOther,
                 extVars>>

\* the marker is put with expirationTtl 600 and the token is accepted
AdminPut ==
  /\ adm.pc = "token_put"
  /\ usedTokens' = Put(usedTokens, adm.token,
                       [exp |-> now + UsedTokenTtlS * 1000])
  /\ adm' = AdminResult(adm.token, TRUE, "none")
  /\ acceptCount' = Put(acceptCount, adm.token,
                        IF adm.token \in DOMAIN acceptCount
                          THEN acceptCount[adm.token] + 1
                        ELSE 1)
  /\ UNCHANGED <<now, ticks, started, rateCount, userStats, tiers, cache, heap,
                 req, submitted, accepted, arrived, admOther, extVars>>

\* a second request with a Bearer token, handled while the first may stand
\* between its read of the marker and its put
OtherStart(token, budget) ==
  /\ admOther.pc = "idle"
  /\ ~KeyUnusable(ADMIN_KEY)
  /\ started < budget
  /\ started' = started + 1
  /\ admOther' = TokenChecked(token)
  /\ UNCHANGED <<now, ticks, rateCount, userStats, tiers, cache, heap, req,
                 submitted, accepted, arrived, usedTokens, acceptCount, adm,
                 extVars>>

OtherPut ==
  /\ admOther.pc = "token_put"
  /\ usedTokens' = Put(usedTokens, admOther.token,
                       [exp |-> now + UsedTokenTtlS * 1000])
  /\ admOther' = AdminResult(admOther.token, TRUE, "none")
  /\ acceptCount' = Put(acceptCount, admOther.token,
                        IF admOther.token \in DOMAIN acceptCount
                          THEN acceptCount[admOther.token] + 1
                        ELSE 1)
  /\ UNCHANGED <<now, ticks, started, rateCount, userStats, tiers, cache, heap,
                 req, submitted, accepted, arrived, adm, extVars>>

\* ------------------------------------------- calls of single functions
\* a call that has not returned, and the same call with what it returned
NoCall == [name |-> "none", input |-> <<>>, returned |-> FALSE, result |-> <<>>]
Call(name, input) == [NoCall EXCEPT !.name = name, !.input = input]
Returned(call, result) == [call EXCEPT !.returned = TRUE, !.result = result]

\* validateGameSession(gameData) is called and returns
SessionReturn ==
  /\ op.name = "validateGameSession"
  /\ ~op.returned
  /\ op' = Returned(op, validateGameSession(op.input, now))
  /\ UNCHANGED <<now, ticks, started, rateCount, userStats, tiers, cache, heap,
                 req, submitted, accepted, arrived, adminVars, ADMIN_KEY, game, kv,
                 optimizer>>

\* ------------------------------------------------- KVStorageManager
\* The adapter called on its own, one call at a time. Values are whole
\* numbers; the store holds their JSON text with the time its expirationTtl
\* ends (0 when none was given). fails names the store operation of the
\* call that throws: "get", "put" or "none".
JsonStringify(v) == IntToStr(v.num.ms \div 1000)
JsonParse(text) == NumV(DigitsValue(text) * 1000)

\* what an async function comes to: a value returned or an exception thrown
Outcome(value, threw) == [value |-> value, threw |-> threw]
Thrown == Outcome(NullV, TRUE)

\* ErrorHandler.handleAsyncError(operation, context, fallbackValue), and the
\* same without its catch
Rethrow(outcome, fallbackValue) == outcome
handleAsyncError(outcome, fallbackValue) ==
  IF outcome.threw THEN Outcome(fallbackValue, FALSE) ELSE outcome

\* the call ends: failed says whether a store operation threw, reads how
\* often the store was read
AdapterReturn(name, input, outcome, failed, reads) ==
  [name |-> name, input |-> [input EXCEPT !.n = started + 1], returned |-> TRUE,
   result |-> [value |-> outcome.value, threw |-> outcome.threw,
               failed |-> failed, reads |-> reads]]

\* safeGet caches what it read: data !== null, and the same always true
CacheAlways(stored) == TRUE
CacheWorthy(stored) == stored

safeGet(key, defaultValue, cacheTTL, fails, budget) ==
  LET cacheKey == KvCacheKey(key)
      hit == CacheHit(cacheKey, now)
      cache1 == CacheAfterGet(cacheKey, now)
      failed == ~hit /\ fails = "get"
      stored == key \in DOMAIN kv
      result == IF stored THEN JsonParse(kv[key].data) ELSE defaultValue
      outcome == handleAsyncError(
                   IF hit THEN Outcome(cache[cacheKey].data, FALSE)
                   ELSE IF failed THEN Thrown
                   ELSE Outcome(result, FALSE), defaultValue)
  IN  /\ started < budget
      /\ started' = started + 1
      /\ cache' = IF ~hit /\ ~failed /\ CacheWorthy(stored)
                    THEN CacheSet(cache1, cacheKey, result,
                                  IF cacheTTL = 0 THEN DefaultCacheTtlMs ELSE cacheTTL,
                                  now)
                  ELSE cache1
      /\ op' = AdapterReturn("safeGet",
                             [n |-> 0, key |-> key, defaultValue |-> defaultValue,
                              cacheTTL |-> cacheTTL, fails |-> fails],
                             outcome, failed, IF hit THEN 0 ELSE 1)
      /\ UNCHANGED <<now, ticks, rateCount, userStats, tiers, heap, req, submitted,
                     accepted, arrived, adminVars, ADMIN_KEY, game, kv, optimizer>>

\* options.expirationTtl ? Math.min(options.expirationTtl * 1000, 300000)
\* : null, null giving the cache's default; and the same without the cap
PutCacheTtlUncapped(expirationTtl) ==
  IF expirationTtl # 0 THEN expirationTtl * 1000 ELSE DefaultCacheTtlMs
PutCacheTtl(expirationTtl) ==
  IF expirationTtl # 0 THEN Min(expirationTtl * 1000, CacheCapMs)
  ELSE DefaultCacheTtlMs

\* this.kv.put(key, text, {expirationTtl})
KvPut(store, key, text, expirationTtl, t) ==
  Put(store, key, [data |-> text,
                   exp |-> IF expirationTtl = 0 THEN 0 ELSE t + expirationTtl * 1000])

safePut(key, value, expirationTtl, fails, budget) ==
  LET cacheKey == KvCacheKey(key)
      failed == fails = "put"
      outcome == handleAsyncError(IF failed THEN Thrown ELSE Outcome(TRUE, FALSE),
                                  FALSE)
  IN  /\ started < budget
      /\ started' = started + 1
      /\ kv' = IF failed THEN kv
               ELSE KvPut(kv, key, JsonStringify(value), expirationTtl, now)
      /\ cache' = IF failed THEN cache
                  ELSE CacheSet(cache, cacheKey, value, PutCacheTtl(expirationTtl), now)
      /\ op' = AdapterReturn("safePut",
                             [n |-> 0, key |-> key, value |-> value,
                              expirationTtl |-> expirationTtl, fails |-> fails],
                             outcome, failed, 0)
      /\ UNCHANGED <<now, ticks, rateCount, userStats, tiers, heap, req, submitted,
                     accepted, arrived, adminVars, ADMIN_KEY, game, optimizer>>

\* current ? parseInt(current) : 0, plus the increment, put as a string
atomicIncrement(key, increment, expirationTtl, fails, budget) ==
  LET current == IF key \in DOMAIN kv THEN ParseIntWhole(kv[key].data).n ELSE 0
      newValue == current + increment
      failed == fails # "none"
      outcome == handleAsyncError(IF failed THEN Thrown
                                  ELSE Outcome(NumV(newValue * 1000), FALSE),
                                  NumV(0))
  IN  /\ started < budget
      /\ started' = started + 1
      /\ kv' = IF failed THEN kv
               ELSE KvPut(kv, key, IntToStr(newValue), expirationTtl, now)
      /\ op' = AdapterReturn("atomicIncrement",
                             [n |-> 0, key |-> key, increment |-> increment,
                              expirationTtl |-> expirationTtl, fails |-> fails],
                             outcome, failed, 1)
      /\ UNCHANGED <<now, ticks, rateCount, userStats, tiers, cache, heap, req,
                     submitted, accepted, arrived, adminVars, ADMIN_KEY, game, optimizer>>

\* every key is read; the answer maps each key to its value or to null
batchGet(keys, fails, budget) ==
  LET failed == fails = "get"
      data == [k \in keys |-> IF k \in DOMAIN kv THEN JsonParse(kv[k].data)
                              ELSE NullV]
      outcome == handleAsyncError(IF failed THEN Thrown ELSE Outcome(data, FALSE),
                                  EmptyMap)
  IN  /\ started < budget
      /\ started' = started + 1
      /\ op' = AdapterReturn("batchGet", [n |-> 0, keys |-> keys, fails |-> fails],
                             outcome, failed, Cardinality(keys))
      /\ UNCHANGED <<now, ticks, rateCount, userStats, tiers, cache, heap, req,
                     submitted, accepted, arrived, adminVars, ADMIN_KEY, game, kv,
                     optimizer>>

\* every operation is put; the puts are independent, so when the put of
\* failing throws the others are still made
batchPut(operations, failing, budget) ==
  LET failed == failing \in DOMAIN operations
      written == DOMAIN operations \ {failing}
      outcome == handleAsyncError(IF failed THEN Thrown ELSE Outcome(TRUE, FALSE),
                                  FALSE)
  IN  /\ started < budget
      /\ started' = started + 1
      /\ kv' = [k \in DOMAIN kv \cup written |->
                 IF k \in written
                   THEN [data |-> JsonStringify(operations[k]), exp |-> 0]
                 ELSE kv[k]]
      /\ op' = AdapterReturn("batchPut",
                             [n |-> 0, operations |-> operations, failing |-> failing],
                             outcome, failed, 0)
      /\ UNCHANGED <<now, ticks, rateCount, userStats, tiers, cache, heap, req,
                     submitted, accepted, arrived, adminVars, ADMIN_KEY, game, optimizer>>

\* ------------------------------------------------ ConcurrencyOptimizer
\* new ConcurrencyOptimizer(maxConcurrency); tasks holds, in the order of
\* the execute calls, where each task given to it stands
NewOptimizer(maxConcurrency) ==
  [maxConcurrency |-> maxConcurrency, running |-> 0, queue |-> <<>>,
   tasks |-> <<>>]

\* this.running >= this.maxConcurrency, and the same one too late
SaturatedLate(o) == o.running > o.maxConcurrency
Saturated(o) == o.running >= o.maxConcurrency

\* this.queue.shift(): the first entry and the queue without it; Pop takes
\* the last entry instead
Pop(queue) ==
  [task |-> queue[Len(queue)], queue |-> SubSeq(queue, 1, Len(queue) - 1)]
Shift(queue) == [task |-> Head(queue), queue |-> Tail(queue)]

\* processQueue up to its await: nothing when the optimizer is saturated or
\* the queue empty; else running++, the head of the queue is taken and its
\* task called. A task that throws when called is rejected at once, and the
\* finally block (running--, processQueue()) runs within the same call.
RECURSIVE processQueue(_)
processQueue(o) ==
  IF Saturated(o) \/ o.queue = <<>> THEN o
  ELSE LET id == Shift(o.queue).task
           taken == [o EXCEPT !.running = @ + 1, !.queue = Shift(@).queue]
       IN  IF o.tasks[id].kind = "throws"
             THEN processQueue([taken EXCEPT !.running = @ - 1,
                                             !.tasks[id].state = "rejected"])
           ELSE [taken EXCEPT !.tasks[id].state = "running"]

\* execute(task): the task is pushed and processQueue called
Execute(kind, budget) ==
  LET id == Len(optimizer.tasks) + 1
  IN  /\ id <= budget
      /\ optimizer' = processQueue(
           [optimizer EXCEPT !.queue = Append(@, id),
                             !.tasks = Append(@, [kind |-> kind, state |-> "queued"])])
      /\ UNCHANGED <<now, ticks, started, rateCount, userStats, tiers, cache, heap,
                     req, submitted, accepted, arrived, adminVars, ADMIN_KEY, game, kv, op>>

\* processQueue after its await: the promise of a running task settles, it
\* is resolved or rejected, then running-- and processQueue()
Settle(id, state) ==
  /\ id \in DOMAIN optimizer.tasks
  /\ optimizer.tasks[id].state = "running"
  /\ optimizer' = processQueue([optimizer EXCEPT !.running = @ - 1,
                                                 !.tasks[id].state = state])
  /\ UNCHANGED <<now, ticks, started, rateCount, userStats, tiers, cache, heap,
                 req, submitted, accepted, arrived, adminVars, ADMIN_KEY, game, kv, op>>

\* ------------------------------------------------ the client's game
\* new MinesweeperGame(): board is the set of cells that hold a mine (-1),
\* revealed and flagged the sets of cells marked so; a cell is <<row, col>>.
\* first is the cell of the first left click that acted.
MinesweeperGame ==
  [rows |-> 0, cols |-> 0, mineCount |-> 0, board |-> {}, revealed |-> {},
   flagged |-> {}, gameState |-> "ready", firstClick |-> TRUE, moveCount |-> 0,
   first |-> <<>>]

\* initGame() with the configuration of the chosen difficulty
initGame(config) ==
  [MinesweeperGame EXCEPT !.rows = config.rows, !.cols = config.cols,
                          !.mineCount = config.mines]

Cells(g) == (0..(g.rows - 1)) \X (0..(g.cols - 1))
isValidCell(g, cell) ==
  cell[1] >= 0 /\ cell[1] < g.rows /\ cell[2] >= 0 /\ cell[2] < g.cols
\* the nested loops over dr and dc, row by row
Around(cell) ==
  [k \in 1..9 |-> <<cell[1] + ((k - 1) \div 3) - 1, cell[2] + ((k - 1) % 3) - 1>>]
isGameEnded(g) == g.gameState \in {"won", "lost"}

\* generateMines: the cells a mine may be put on, all but the clicked cell
\* and its neighbours; and the same without the exception
AnyPosition(g, firstClickCell) == Cells(g)
Positions(g, firstClickCell) ==
  {cell \in Cells(g) : ~(/\ Abs(cell[1] - firstClickCell[1]) <= 1
                         /\ Abs(cell[2] - firstClickCell[2]) <= 1)}
\* the shuffle may bring any of the positions to the front: every set of
\* mineCount positions, or of all positions when there are fewer
generateMines(g, firstClickCell) ==
  LET positions == Positions(g, firstClickCell)
  IN  {[g EXCEPT !.board = mines] :
         mines \in {m \in SUBSET positions :
                      Cardinality(m) = Min(g.mineCount, Cardinality(positions))}}

\* calculateNumbers: the number of mines around a cell that holds none
Number(g, cell) ==
  Cardinality({k \in 1..9 : Around(cell)[k] \in g.board})

\* revealCell for each cell of a list in turn; the cells around a cell that
\* shows 0 are revealed before the rest of the list, as the nested calls do.
\* A cell off the board, revealed or flagged is passed over; a mine ends
\* the game and shows every mine.
RECURSIVE RevealEach(_, _)
RevealEach(g, todo) ==
  LET open == SelectSeq(todo, LAMBDA c : /\ isValidCell(g, c)
                                         /\ c \notin g.revealed
                                         /\ c \notin g.flagged)
  IN  IF open = <<>> THEN g
      ELSE LET cell == Head(open)
               shown == [g EXCEPT !.revealed = @ \cup {cell}]
           IN  IF cell \in g.board
                 THEN RevealEach([shown EXCEPT !.gameState = "lost",
                                               !.revealed = @ \cup g.board],
                                 Tail(open))
               ELSE IF Number(g, cell) = 0
                 THEN RevealEach(shown, Around(cell) \o Tail(open))
               ELSE RevealEach(shown, Tail(open))
revealCell(g, cell) == RevealEach(g, <<cell>>)

\* checkGameState: a lost game stays lost; a game with every cell without a
\* mine revealed is won and its mines are flagged
checkGameState(g) ==
  IF g.gameState = "lost" THEN g
  ELSE IF Cells(g) \ (g.revealed \cup g.board) = {}
    THEN [g EXCEPT !.gameState = "won", !.flagged = @ \cup g.board]
  ELSE g

GameUnchanged ==
  UNCHANGED <<now, ticks, started, rateCount, userStats, tiers, cache, heap, req,
              submitted, accepted, arrived, adminVars, ADMIN_KEY, kv, op, optimizer>>

\* a game has ended and the next one is begun, of any difficulty: initGame
\* (begun earlier it gives the same fresh game)
NewGame(config) ==
  /\ isGameEnded(game)
  /\ game' = initGame(config)
  /\ GameUnchanged

\* handleLeftClick(row, col)
handleLeftClick(cell, budget) ==
  /\ isValidCell(game, cell)
  /\ ~isGameEnded(game)
  /\ cell \notin game.flagged
  /\ game.moveCount < budget
  /\ \E mined \in IF game.firstClick
                     THEN generateMines([game EXCEPT !.first = cell], cell)
                   ELSE {game} :
       game' = checkGameState(revealCell(
                 [mined EXCEPT !.moveCount = @ + 1, !.firstClick = FALSE,
                               !.gameState = IF game.firstClick THEN "playing" ELSE @],
                 cell))
  /\ GameUnchanged

\* handleRightClick(row, col)
handleRightClick(cell, budget) ==
  /\ isValidCell(game, cell)
  /\ ~isGameEnded(game)
  /\ cell \notin game.revealed
  /\ game.moveCount < budget
  /\ game' = [game EXCEPT !.moveCount = @ + 1,
                          !.flagged = IF cell \in @ THEN @ \ {cell} ELSE @ \cup {cell}]
  /\ GameUnchanged

\* performQuickDig(row, col): both buttons released on a revealed number
\* with as many flags around it
performQuickDig(cell) ==
  /\ isValidCell(game, cell)
  /\ ~isGameEnded(game)
  /\ cell \in game.revealed /\ cell \notin game.board
  /\ Number(game, cell) > 0
  /\ Cardinality({k \in 1..9 : Around(cell)[k] \in game.flagged}) = Number(game, cell)
  /\ game' = checkGameState(RevealEach(game, Around(cell)))
  /\ game' # game
  /\ GameUnchanged

\* =================================================================
\* Initial states and specifications
\* =================================================================
\* A tier that earlier requests of other users filled: n records, sorted,
\* one per user and per game.
FillerName(k) == <<"f", DigitChars[(k \div 10) + 1], DigitChars[(k % 10) + 1]>>
FillerTime(k) == 100 + k
Filled(n) ==
  [k \in 1..n |-> ScoreRecord(FillerName(k), FillerTime(k), <<"x">> \o FillerName(k))]

InitLeaderboard(fills, counters) ==
  /\ now = StartTime
  /\ ticks = 0
  /\ started = 0
  /\ rateCount \in counters
  /\ userStats = EmptyMap
  /\ \E n \in fills :
       tiers = [d \in Difficulties |-> IF d = "beginner" THEN Filled(n) ELSE <<>>]
  /\ cache = EmptyMap
  /\ heap = EmptyMap
  /\ req = [s \in Slots |-> IdleSlot]
  /\ submitted = EmptyMap
  /\ accepted = {}
  /\ arrived = EmptyMap
  /\ usedTokens = EmptyMap
  /\ adm = IdleAdmin
  /\ admOther = IdleAdmin
  /\ acceptCount = EmptyMap

\* the worker as it is deployed: the key is set, nothing else has run
InitWith(fills, counters) ==
  /\ InitLeaderboard(fills, counters)
  /\ ADMIN_KEY = AdminKey
  /\ game = MinesweeperGame
  /\ kv = EmptyMap
  /\ op = NoCall
  /\ optimizer = NewOptimizer(GlobalMaxConcurrency)

PostSteps(s) ==
  \/ RLWrite(s)
  \/ StatsGet(s)
  \/ StatsPut(s)
  \/ TierRead(s)
  \/ TierPut(s)
  \/ TierDone(s)

GetSteps(s) ==
  \/ GetCache(s)
  \/ GetRead(s)
  \/ GetSet(s)

\* a POST of the claim of a won game
Post(difficulty, username, time, gameId, tweak) ==
  [method |-> "POST", difficulty |-> difficulty, ip |-> <<"1">>, ua |-> <<"a">>,
   username |-> username, time |-> time, gameId |-> gameId, tweak |-> tweak]

UserA == <<"a">>
UserPaddedA == <<" ", "a">>
UserB == <<"b">>

\* ---- Spec: submissions to the beginner tier, handled two at a time, from
\* an empty tier or from a full one
MainRequests ==
  {Post("beginner", UserA, NumV(90000), <<"1">>, "none"),
   Post("beginner", UserPaddedA, NumV(80000), <<"2">>, "none"),
   Post("beginner", UserB, NumV(90000), <<"3">>, "none"),
   Post("beginner", UserB, NumV(500000), <<"1">>, "none")}

Init == InitWith({0, TopN}, {EmptyMap})

Next ==
  \/ \E s \in Slots : \E r \in MainRequests : Start(s, r, MaxReq)
  \/ \E s \in Slots : PostSteps(s)

Spec == Init /\ [][Next]_vars

\* ---- SpecSeq: the same tier, one request handled at a time; a time may
\* come as a numeric string, a request may use another method, and five
\* minutes may pass
TimeString1e2 == StrV(<<"1", "e", "2">>)

OtherMethodRequest ==
  [Post("beginner", UserA, NullV, <<>>, "none") EXCEPT !.method = "PUT"]

SeqRequests ==
  MainRequests
    \cup {Post("beginner", UserA, TimeString1e2, <<"4">>, "none"),
          OtherMethodRequest}

NextSeq ==
  \/ \E r \in SeqRequests : Start(1, r, MaxSeqReq)
  \/ PostSteps(1)
  \/ OtherMethod(1)
  \/ Tick(FrequentWindowS * 1000, MaxSeqTicks)

SpecSeq == Init /\ [][NextSeq]_vars

\* ---- SpecRate: two clients behind one address, one request at a time,
\* in a window that is fresh, or in which two other clients of the address
\* have used all but two of its requests, or in which the clients of other
\* addresses have used all but two of the global ones
ClientA == [ip |-> <<"1">>, ua |-> <<"a">>]
ClientB == [ip |-> <<"1">>, ua |-> <<"b">>]
ClientC == [ip |-> <<"1">>, ua |-> <<"c">>]
ClientE == [ip |-> <<"1">>, ua |-> <<"e">>]
RateClients == {ClientA, ClientB}

RateRequests ==
  {[OtherMethodRequest EXCEPT !.ua = c.ua] : c \in RateClients}
    \cup {Post("beginner", UserA, NumV(90000), <<"1">>, "none")}

\* a counter as a request at StartTime wrote it
WindowCounter(count) == [count |-> count, exp |-> StartTime + CounterTtlS * 1000]

\* clients C and E made (IpLimit - 2) / 2 requests each
BusyAddress ==
  LET minute == StartTime \div WindowMs
      each == (IpLimit - 2) \div 2
      ofC == RateLimitConfig(ClientC, minute)
      ofE == RateLimitConfig(ClientE, minute)
  IN  Put(Put(Put(Put(EmptyMap, ofC[1].key, WindowCounter(2 * each)),
                  ofC[2].key, WindowCounter(each)),
              ofE[2].key, WindowCounter(each)),
          ofC[3].key, WindowCounter(2 * each))

\* the counter of all clients, two below its limit (the counters of the other
\* addresses are left out: no request of the model reads them)
BusyWorld ==
  Put(EmptyMap, RateLimitConfig(ClientA, StartTime \div WindowMs)[3].key,
      WindowCounter(GlobalLimit - 2))

InitRate == InitWith({0}, {EmptyMap, BusyAddress, BusyWorld})

NextRate ==
  \/ \E r \in RateRequests : Start(1, r, MaxRateReq)
  \/ PostSteps(1)
  \/ OtherMethod(1)

SpecRate == InitRate /\ [][NextRate]_vars

\* ---- SpecRace: requests of client A, or of clients A and B behind one
\* address, handled two at a time; in this window nothing was counted yet,
\* or client A has made all but one of the requests its fingerprint may make
LastOfFingerprint ==
  LET config == RateLimitConfig(ClientA, StartTime \div WindowMs)
  IN  [k \in {config[i].key : i \in 1..3} |-> WindowCounter(FingerprintLimit - 1)]

InitRace == InitWith({0}, {EmptyMap, LastOfFingerprint})

NextRace ==
  \/ \E s \in Slots : \E r \in RateRequests : Start(s, r, MaxRaceReq)
  \/ \E s \in Slots : PostSteps(s) \/ OtherMethod(s)

SpecRace == InitRace /\ [][NextRace]_vars

\* ---- SpecToken: admin tokens presented one after another, at any time
BadSignature == <<40000, 0>>

TokenTimestamps ==
  {IntToStr(StartTime - TokenMaxAgeMs - 1), IntToStr(StartTime - TokenMaxAgeMs),
   IntToStr(StartTime), IntToStr(StartTime + 1), <<"x">>}

Tokens ==
  {Token(2, ts, generateTokenSignature(ts, AdminKey)) : ts \in TokenTimestamps}
    \cup {Token(2, ts, BadSignature) : ts \in TokenTimestamps}
    \cup {Token(0, <<>>, <<0, 0>>), Token(1, IntToStr(StartTime), <<0, 0>>),
          Token(3, IntToStr(StartTime), generateTokenSignature(IntToStr(StartTime), AdminKey))}

TokenTicks == {1, TokenMaxAgeMs, UsedTokenTtlS * 1000}

NextToken ==
  \/ \E token \in Tokens : AdminStart(token, MaxTokenReq)
  \/ AdminPut
  \/ \E d \in TokenTicks : Tick(d, MaxTokenTicks)

SpecToken == Init /\ [][NextToken]_vars

\* ---- SpecReplay: admin tokens presented to two handlers at once
ReplayTokens ==
  {Token(2, IntToStr(StartTime), generateTokenSignature(IntToStr(StartTime), AdminKey)),
   Token(2, IntToStr(StartTime), BadSignature),
   Token(2, IntToStr(StartTime + 1), generateTokenSignature(IntToStr(StartTime + 1), AdminKey)),
   Token(1, IntToStr(StartTime), <<0, 0>>)}

NextReplay ==
  \/ \E token \in ReplayTokens : AdminStart(token, MaxReplayReq)
  \/ AdminPut
  \/ \E token \in ReplayTokens : OtherStart(token, MaxReplayReq)
  \/ OtherPut
  \/ \E d \in TokenTicks : Tick(d, MaxReplayTicks)

SpecReplay == Init /\ [][NextReplay]_vars

\* ---- SpecScore: claims of every difficulty with times around the
\* references, one request at a time
ScoreTimes ==
  {NumV(0 - 1000), NumV(300), NumV(1000), NumV(7000), NumV(7500), NumV(10000),
   NumV(14000), NumV(15000), NumV(31000), NumV(62000), NumV(63000), NumV(90000),
   StrV(<<"1", "0">>), NullV}

ScoreRequests ==
  {Post(d, UserA, time, <<"1">>, "none") : d \in Difficulties, time \in ScoreTimes}

NextScore ==
  \/ \E r \in ScoreRequests : Start(1, r, MaxScoreReq)
  \/ PostSteps(1)

SpecScore == Init /\ [][NextScore]_vars

\* ---- SpecBehave: two users submit to the beginner tier, one request at a
\* time, as fast as they like; five minutes may pass
BehaveRequests ==
  {Post("beginner", UserA, NumV(90000), <<"1">>, "none"),
   Post("beginner", UserA, NumV(80000), <<"2">>, "none"),
   Post("beginner", UserB, NumV(90000), <<"3">>, "none")}

NextBehave ==
  \/ \E r \in BehaveRequests : Start(1, r, MaxBehaveReq)
  \/ PostSteps(1)
  \/ Tick(FrequentWindowS * 1000, MaxBehaveTicks)

SpecBehave == Init /\ [][NextBehave]_vars

\* ---- SpecWrite: requests of every kind, leaderboard requests handled two
\* at a time beside an admin request. The tier is empty, or user B has made
\* four submissions of one game in a row, the last 150 s ago; the address
\* has made no request in this window or all it may make.
Get(difficulty) ==
  [OtherMethodRequest EXCEPT !.method = "GET", !.difficulty = difficulty]

WriteRequests ==
  {Post("beginner", UserA, NumV(90000), <<"1">>, "none"),
   Post("beginner", UserA, NumV(90000), <<"1">>, "lost"),
   Post("beginner", UserB, NumV(80000), <<"5">>, "none"),
   Post("beginner", UserB, NumV(90000), <<"3">>, "none"),
   Get("beginner"),
   [Get("beginner") EXCEPT !.method = "OPTIONS"],
   OtherMethodRequest}

\* clients C and E made IpLimit / 2 requests each
FullAddress ==
  LET minute == StartTime \div WindowMs
      each == IpLimit \div 2
      ofC == RateLimitConfig(ClientC, minute)
      ofE == RateLimitConfig(ClientE, minute)
  IN  Put(Put(Put(Put(EmptyMap, ofC[1].key, WindowCounter(2 * each)),
                  ofC[2].key, WindowCounter(each)),
              ofE[2].key, WindowCounter(each)),
          ofC[3].key, WindowCounter(2 * each))

\* the statistics of user B after four submissions of 90 s in a row
HurriedStats ==
  [submissions |-> 4, bestTime |-> NumV(90000), totalTime |-> NumV(360000),
   lastSubmission |-> StartTime - 150000, suspiciousCount |-> 3]

InitWrite ==
  /\ now = StartTime
  /\ ticks = 0
  /\ started = 0
  /\ rateCount \in {EmptyMap, FullAddress}
  /\ \E hurried \in BOOLEAN :
       /\ userStats =
            IF hurried
              THEN Put(EmptyMap, StatsKey(UserB, "beginner"),
                       [data |-> HurriedStats,
                        exp |-> HurriedStats.lastSubmission + StatsTtlS * 1000])
            ELSE EmptyMap
       /\ tiers = [d \in Difficulties |->
                     IF hurried /\ d = "beginner"
                       THEN <<ScoreRecord(UserB, 90, <<"3">>)>> ELSE <<>>]
       /\ submitted = IF hurried THEN Put(EmptyMap, <<"beginner", UserB>>, 90)
                      ELSE EmptyMap
       /\ accepted = IF hurried THEN {<<"beginner", <<"3">>>>} ELSE {}
  /\ cache = EmptyMap
  /\ heap = EmptyMap
  /\ req = [s \in Slots |-> IdleSlot]
  /\ arrived = EmptyMap
  /\ usedTokens = EmptyMap
  /\ adm = IdleAdmin
  /\ admOther = IdleAdmin
  /\ acceptCount = EmptyMap
  /\ ADMIN_KEY = AdminKey
  /\ game = MinesweeperGame
  /\ kv = EmptyMap
  /\ op = NoCall
  /\ optimizer = NewOptimizer(GlobalMaxConcurrency)

NextWrite ==
  \/ \E s \in Slots : \E r \in WriteRequests : Start(s, r, MaxWriteReq)
  \/ \E s \in Slots : PostSteps(s) \/ GetSteps(s) \/ Options(s) \/ OtherMethod(s)
  \/ \E token \in {Token(2, ts, generateTokenSignature(ts, AdminKey)) :
                      ts \in {IntToStr(StartTime), <<"x">>}} :
       AdminStart(token, MaxWriteReq)
  \/ AdminPut
  \/ AdminRefuse(FALSE, NoToken, MaxWriteReq)

SpecWrite == InitWrite /\ [][NextWrite]_vars

\* ---- SpecCache: reads of the beginner tier and submissions to it, handled
\* two at a time; the tier holds one record
CacheRequests ==
  {Get("beginner"),
   Post("beginner", UserA, NumV(90000), <<"1">>, "none"),
   Post("beginner", UserB, NumV(80000), <<"5">>, "none")}

InitCache == InitWith({1}, {EmptyMap})

NextCache ==
  \/ \E s \in Slots : \E r \in CacheRequests : Start(s, r, MaxCacheReq)
  \/ \E s \in Slots : PostSteps(s) \/ GetSteps(s)

SpecCache == InitCache /\ [][NextCache]_vars

\* ---- SpecAdapter: calls of the store adapter on two keys, one after the
\* other, each with a store that works or fails; time may pass
AdapterKeys == {<<"k", "1">>, <<"k", "2">>}
AdapterValue == NumV(2000)

NextAdapter ==
  \/ \E key \in AdapterKeys, cacheTTL \in {0, GetCacheTtlMs}, fails \in {"none", "get"} :
       safeGet(key, NumV(0), cacheTTL, fails, MaxAdapterCalls)
  \/ \E key \in AdapterKeys, expirationTtl \in {0, UsedTokenTtlS},
        fails \in {"none", "put"} :
       safePut(key, AdapterValue, expirationTtl, fails, MaxAdapterCalls)
  \/ \E key \in AdapterKeys, fails \in {"none", "get", "put"} :
       atomicIncrement(key, 1, CounterTtlS, fails, MaxAdapterCalls)
  \/ \E fails \in {"none", "get"} : batchGet(AdapterKeys, fails, MaxAdapterCalls)
  \/ \E failing \in AdapterKeys \cup {<<>>} :
       batchPut([k \in AdapterKeys |-> AdapterValue], failing, MaxAdapterCalls)
  \/ \E d \in {GetCacheTtlMs, DefaultCacheTtlMs + 1} : Tick(d, MaxAdapterTicks)

SpecAdapter == Init /\ [][NextAdapter]_vars

\* ---- SpecAdmin: admin requests with and without a Bearer token, one after
\* another, at a worker whose key is not set, one character short, or good
ShortKey == [i \in 1..(MinKeyLen - 1) |-> "k"]

InitAdmin ==
  /\ InitLeaderboard({0}, {EmptyMap})
  /\ ADMIN_KEY \in {<<>>, ShortKey, AdminKey}
  /\ game = MinesweeperGame
  /\ kv = EmptyMap
  /\ op = NoCall
  /\ optimizer = NewOptimizer(GlobalMaxConcurrency)

NextAdmin ==
  \/ NextToken
  \/ \E bearer \in BOOLEAN : \E token \in Tokens \cup {NoToken} :
       AdminRefuse(bearer, token, MaxTokenReq)

SpecAdmin == InitAdmin /\ [][NextAdmin]_vars

\* ---- SpecOptimizer: a ConcurrencyOptimizer of any small maxConcurrency is
\* given tasks, which throw when called or run and then fulfil or reject
InitOptimizer ==
  /\ InitLeaderboard({0}, {EmptyMap})
  /\ ADMIN_KEY = AdminKey
  /\ game = MinesweeperGame
  /\ kv = EmptyMap
  /\ op = NoCall
  /\ \E maxConcurrency \in 1..MaxSlots : optimizer = NewOptimizer(maxConcurrency)

NextOptimizer ==
  \/ \E kind \in {"async", "throws"} : Execute(kind, MaxTasks)
  \/ \E id \in 1..MaxTasks : \E state \in {"fulfilled", "rejected"} : Settle(id, state)

SpecOptimizer == InitOptimizer /\ [][NextOptimizer]_vars

\* the same optimizer when every task that runs comes to an end: the promise
\* of each running task settles at some time
SpecOptimizerFair ==
  /\ InitOptimizer
  /\ [][NextOptimizer]_vars
  /\ \A id \in 1..MaxTasks :
       WF_vars(\E state \in {"fulfilled", "rejected"} : Settle(id, state))

\* ---- SpecSession: validateGameSession called once, with the claim of a won
\* game of any difficulty whose board is off by one in any of width, height
\* and mines, and which has at most one other thing wrong
SessionClaim(d, dw, dh, dm, fault) ==
  LET g == GameData(Post(d, UserA, NumV(90000), <<"1">>, "none"), StartTime)
  IN  [g EXCEPT
         !.boardSize.width = @ + dw,
         !.boardSize.height = @ + dh,
         !.mineCount = @ + dm,
         !.gameState = IF fault = "lost" THEN "lost" ELSE @,
         !.timestamp.ms = IF fault = "old" THEN StartTime - SessionMaxAgeMs - 1 ELSE @,
         !.fields = IF fault = "no_first_click" THEN @ \ {"firstClickTime"} ELSE @,
         !.gameEndTime = IF fault = "duration" THEN @ + (DurationSlackS + 1) * 1000
                         ELSE @,
         !.moves = IF fault = "few_moves" THEN 1
                   ELSE IF fault = "many_moves" THEN 2000 ELSE @]

SessionClaims ==
  {SessionClaim(d, dw, dh, dm, fault) :
     d \in Difficulties, dw \in {0 - 1, 0, 1}, dh \in {0 - 1, 0, 1},
     dm \in {0 - 1, 0, 1},
     fault \in {"none", "lost", "old", "no_first_click", "duration", "few_moves",
                "many_moves"}}

InitSession ==
  /\ InitLeaderboard({0}, {EmptyMap})
  /\ ADMIN_KEY = AdminKey
  /\ game = MinesweeperGame
  /\ kv = EmptyMap
  /\ op \in {Call("validateGameSession", g) : g \in SessionClaims}
  /\ optimizer = NewOptimizer(GlobalMaxConcurrency)

SpecSession == InitSession /\ [][SessionReturn]_vars

\* validateScoreReasonableness(time, difficulty, gameData) is called and
\* returns
ScoreReturn ==
  /\ op.name = "validateScoreReasonableness"
  /\ ~op.returned
  /\ op' = Returned(op, validateScoreReasonableness(op.input.time,
                         op.input.difficulty, op.input.gameData, now))
  /\ UNCHANGED <<now, ticks, started, rateCount, userStats, tiers, cache, heap,
                 req, submitted, accepted, arrived, adminVars, ADMIN_KEY, game, kv,
                 optimizer>>

\* ---- SpecOrder: validateScoreReasonableness called once, with the claim of
\* a game of any difficulty and any of a few times, which has any number of
\* things wrong at once
OrderFaults ==
  {"no_first_click", "lost", "old", "duration", "board", "few_moves",
   "many_moves"}
OrderTimes == {NumV(300), NumV(7000), NumV(10000), NumV(90000), NumV(3100000)}

OrderClaim(d, time, faults) ==
  LET g == GameData(Post(d, UserA, time, <<"1">>, "none"), StartTime)
  IN  [g EXCEPT
         !.fields = IF "no_first_click" \in faults
                      THEN @ \ {"firstClickTime"} ELSE @,
         !.gameState = IF "lost" \in faults THEN "lost" ELSE @,
         !.timestamp.ms = IF "old" \in faults
                            THEN StartTime - SessionMaxAgeMs - 1 ELSE @,
         !.gameEndTime = IF "duration" \in faults
                           THEN @ + (DurationSlackS + 1) * 1000 ELSE @,
         !.mineCount = IF "board" \in faults THEN @ + 1 ELSE @,
         !.moves = IF "few_moves" \in faults THEN 1
                   ELSE IF "many_moves" \in faults THEN 2000 ELSE @]

InitOrder ==
  /\ InitLeaderboard({0}, {EmptyMap})
  /\ ADMIN_KEY = AdminKey
  /\ game = MinesweeperGame
  /\ kv = EmptyMap
  /\ op \in {Call("validateScoreReasonableness",
                   [time |-> time, difficulty |-> d,
                    gameData |-> OrderClaim(d, time, faults)]) :
               d \in Difficulties, time \in OrderTimes,
               faults \in SUBSET OrderFaults}
  /\ optimizer = NewOptimizer(GlobalMaxConcurrency)

SpecOrder == InitOrder /\ [][ScoreReturn]_vars

\* ---- SpecLimits: validateGameSession called once, with the claim of a won
\* game whose moves, time, age and duration lie on and next to the limits of
\* the checks, and whose time or timestamp may be a string that is no number
\* and no date
LimitMoves(d) ==
  LET board == ExpectedBoardSizes[d]
  IN  {MinMoves[d] - 1, MinMoves[d], 20, 21, 25, 26,
       board.width * board.height * 2, board.width * board.height * 2 + 1}
LimitTimes(d) ==
  {NumV(1000), NumV(1250), NumV(90000), NumV(60 * MinMoves[d] * 1000),
   NumV(60 * MinMoves[d] * 1000 + 1000), StrV(<<"a">>)}
LimitAges == {1000, SessionMaxAgeMs, SessionMaxAgeMs + 1}
LimitSlacks ==
  {0 - (DurationSlackS * 1000 + 1), 0 - DurationSlackS * 1000,
   DurationSlackS * 1000, DurationSlackS * 1000 + 1}

LimitClaim(d, time, moves, age, kind, slack) ==
  LET g == GameData(Post(d, UserA, time, <<"1">>, "none"), StartTime)
  IN  [g EXCEPT
         !.moves = moves,
         !.timestamp = [kind |-> kind, ms |-> StartTime - age],
         !.gameEndTime = g.firstClickTime + SecondsOf(time) * 1000 + slack]

InitLimits ==
  /\ InitLeaderboard({0}, {EmptyMap})
  /\ ADMIN_KEY = AdminKey
  /\ game = MinesweeperGame
  /\ kv = EmptyMap
  /\ op \in {Call("validateGameSession", LimitClaim(d, time, moves, age, kind, slack)) :
               d \in Difficulties, time \in UNION {LimitTimes(e) : e \in Difficulties},
               moves \in UNION {LimitMoves(e) : e \in Difficulties},
               age \in LimitAges, kind \in {"iso", "garbage"},
               slack \in LimitSlacks}
  /\ optimizer = NewOptimizer(GlobalMaxConcurrency)

SpecLimits == InitLimits /\ [][SessionReturn]_vars

\* ---- SpecCooldown: user B submits to the beginner tier, one request at a
\* time, at a worker whose cache is empty. There are no statistics yet, or
\* user B has made four submissions in a row, the last 250 s ago; 50 s may
\* pass, twice.
CoolStep == (FrequentWindowS * 1000) \div 6
CoolStats == [HurriedStats EXCEPT !.lastSubmission = StartTime - 5 * CoolStep]
CoolRequests ==
  {Post("beginner", UserB, NumV(90000), <<"3">>, "none"),
   Post("beginner", UserB, NumV(80000), <<"5">>, "none")}

InitCooldown ==
  /\ now = StartTime
  /\ ticks = 0
  /\ started = 0
  /\ rateCount = EmptyMap
  /\ \E hurried \in BOOLEAN :
       /\ userStats =
            IF hurried
              THEN Put(EmptyMap, StatsKey(UserB, "beginner"),
                       [data |-> CoolStats,
                        exp |-> CoolStats.lastSubmission + StatsTtlS * 1000])
            ELSE EmptyMap
       /\ tiers = [d \in Difficulties |->
                     IF hurried /\ d = "beginner"
                       THEN <<ScoreRecord(UserB, 90, <<"3">>)>> ELSE <<>>]
       /\ submitted = IF hurried THEN Put(EmptyMap, <<"beginner", UserB>>, 90)
                      ELSE EmptyMap
       /\ accepted = IF hurried THEN {<<"beginner", <<"3">>>>} ELSE {}
  /\ cache = EmptyMap
  /\ heap = EmptyMap
  /\ req = [s \in Slots |-> IdleSlot]
  /\ arrived = EmptyMap
  /\ usedTokens = EmptyMap
  /\ adm = IdleAdmin
  /\ admOther = IdleAdmin
  /\ acceptCount = EmptyMap
  /\ ADMIN_KEY = AdminKey
  /\ game = MinesweeperGame
  /\ kv = EmptyMap
  /\ op = NoCall
  /\ optimizer = NewOptimizer(GlobalMaxConcurrency)

NextCooldown ==
  \/ \E r \in CoolRequests : Start(1, r, MaxCoolReq)
  \/ PostSteps(1)
  \/ Tick(CoolStep, MaxCoolTicks)

SpecCooldown == InitCooldown /\ [][NextCooldown]_vars

\* ---- SpecFaulty: requests of clients A and B, one at a time, at a store
\* whose reads and writes of counters may throw
NextFaulty ==
  \/ \E r \in RateRequests : Start(1, r, MaxFaultReq)
  \/ \E r \in RateRequests : StartReadFails(1, r, MaxFaultReq)
  \/ \E failing \in SUBSET (1..3) : \E written \in SUBSET (1..3) :
       RLWriteFails(1, failing, written)
  \/ PostSteps(1)
  \/ OtherMethod(1)

SpecFaulty == InitWith({0}, {EmptyMap}) /\ [][NextFaulty]_vars

\* ---- SpecGame: games on small boards; cells are flagged, clicked and dug
\* around in any order
GameConfigs ==
  {[rows |-> r, cols |-> c, mines |-> m] :
     r \in 1..MaxRows, c \in 1..MaxCols, m \in 1..MaxMines}

InitClient ==
  /\ InitLeaderboard({0}, {EmptyMap})
  /\ ADMIN_KEY = AdminKey
  /\ game \in {initGame(config) : config \in GameConfigs}
  /\ kv = EmptyMap
  /\ op = NoCall
  /\ optimizer = NewOptimizer(GlobalMaxConcurrency)

NextGame ==
  \/ \E cell \in (0..(MaxRows - 1)) \X (0..(MaxCols - 1)) :
       \/ handleLeftClick(cell, MaxMoves)
       \/ handleRightClick(cell, MaxMoves)
       \/ performQuickDig(cell)
  \/ \E config \in GameConfigs : NewGame(config)

SpecGame == InitClient /\ [][NextGame]_vars

C2_OneRecordPerUser ==
  \A d \in Difficulties :
    /\ \A i \in 1..Len(tiers[d]) :
         tiers[d][i].username = Trim(tiers[d][i].username)
    /\ Cardinality({tiers[d][i].username : i \in 1..Len(tiers[d])}) = Len(tiers[d])

\* both spellings of one user wrote the tier, and it holds one record of them
C2_Witness ==
  /\ {<<"beginner", <<"1">>>>, <<"beginner", <<"2">>>>} \subseteq accepted
  /\ Cardinality({i \in 1..Len(tiers["beginner"]) :
                    tiers["beginner"][i].username = UserA}) = 1

\* C3: with one request at a time, a user's stored time is the lowest of the
\* times that user submitted to the tier write.
C3_StoredIsMinimum ==
  \A who \in DOMAIN submitted :
    \A i \in 1..Len(tiers[who[1]]) :
      tiers[who[1]][i].username = who[2]
        => tiers[who[1]][i].time = submitted[who]

\* C4: a submission that reaches the duplicate check with a gameId that an
\* earlier submission to the same tier carried is answered 400
\* DUPLICATE_GAME, whatever was submitted in between.
C4_SecondIsDuplicate ==
  [][\A s \in Slots :
       (/\ req[s].pc = "tier_put"
        /\ req'[s].pc # "tier_put"
        /\ <<req[s].r.difficulty, req[s].r.gameId>> \in accepted)
         => /\ req'[s].resp.status = 400
            /\ req'[s].resp.code = "DUPLICATE_GAME"]_vars

\* C5: for a user with a record in the tier, a submission of a new game with
\* a strictly lower time replaces the record (new time, new gameId) and the
\* tier stays sorted and within 20; one with an equal or higher time writes
\* nothing and is answered 200, improved false, currentBest the stored time.
C5_ReplaceOnlyIfLower ==
  [][\A s \in Slots :
       LET r == req[s].r
           lb == tiers[r.difficulty]
           username == Trim(r.username)
           index == FindIndex(lb, LAMBDA x : x.username = username)
           time == SecondsOf(r.time)
           after == tiers'[r.difficulty]
       IN  (/\ req[s].pc = "tier_put"
            /\ req'[s].pc # "tier_put"
            /\ index # 0
            /\ FindIndex(lb, LAMBDA x : x.gameId = r.gameId) = 0)
             => IF time < lb[index].time
                  THEN /\ \E i \in 1..Len(after) :
                            after[i] = ScoreRecord(username, time, r.gameId)
                       /\ Len(after) <= TopN
                       /\ \A i \in 1..(Len(after) - 1) :
                            after[i].time <= after[i + 1].time
                ELSE /\ tiers' = tiers
                     /\ req'[s].resp.status = 200
                     /\ req'[s].resp.improved = "no"
                     /\ req'[s].resp.currentBest = lb[index].time]_vars

\* C6: a token string is accepted at most once, however often and whenever
\* it is presented.
C6_AcceptedAtMostOnce ==
  \A token \in DOMAIN acceptCount : acceptCount[token] <= 1

\* C7: a token whose timestamp lies more than 300000 ms before now, or after
\* now, is rejected with token_expired whatever its signature; a token whose
\* age is within 0..300000 ms is not rejected for its age.
C7_AgeCheck ==
  [][LET token == adm'.token
         timestamp == ParseIntWhole(token.timestampStr)
         tokenAge == now - timestamp.n
     IN  (started' # started /\ adm' # IdleAdmin /\ token.parts = 2
            /\ ~timestamp.nan)
           => IF tokenAge > TokenMaxAgeMs \/ tokenAge < 0
                THEN /\ adm'.pc = "idle"
                     /\ ~adm'.valid
                     /\ adm'.reason = "token_expired"
              ELSE adm'.reason # "token_expired"]_vars

\* a correctly signed token, one millisecond too old, was rejected for its age
C7_Witness ==
  /\ adm.pc = "idle"
  /\ adm.reason = "token_expired"
  /\ adm.token.parts = 2
  /\ adm.token.signature = generateTokenSignature(adm.token.timestampStr, AdminKey)
  /\ ~ParseIntWhole(adm.token.timestampStr).nan
  /\ now - ParseIntWhole(adm.token.timestampStr).n = TokenMaxAgeMs + 1

\* C8: with one request at a time in one window, and the address and global
\* counters below their limits, the first 15 requests of a fingerprint are
\* admitted with remaining 14, 13, ..., 0 and the 16th is rejected with
\* remaining 0 and status 429, writing no counter, statistics or tier.
C8_FirstFifteenAdmitted ==
  [][\A c \in RateClients :
       LET minute == now \div WindowMs
           who == <<generateClientFingerprint(c), minute>>
           before == IF who \in DOMAIN arrived THEN arrived[who] ELSE 0
           config == RateLimitConfig(c, minute)
           inFlight == <<generateClientFingerprint(req[1].r), req[1].minute>>
       IN  /\ (/\ who \in DOMAIN arrived'
               /\ arrived'[who] = before + 1
               /\ CounterGet(config[1].key) < IpLimit
               /\ CounterGet(config[3].key) < GlobalLimit)
                => IF before < FingerprintLimit
                     THEN req'[1].pc = "rl_write"
                   ELSE /\ req'[1].pc = "idle"
                        /\ req'[1].resp.status = 429
                        /\ ~req'[1].rate.allowed
                        /\ req'[1].rate.remaining = 0
                        /\ UNCHANGED <<rateCount, userStats, tiers>>
           /\ (/\ req[1].pc = "rl_write"
               /\ req'[1].pc # "rl_write"
               /\ inFlight = who)
                => /\ req'[1].rate.allowed
                   /\ req'[1].rate.remaining = FingerprintLimit - arrived[who]
                   /\ req'[1].rate.remaining >= 0
                   /\ CounterGet(config[2].key)' = arrived[who]]_vars

\* the 16th request of client A was rejected, the address and the global
\* counter still below their limits
C8_Witness ==
  LET minute == now \div WindowMs
      config == RateLimitConfig(ClientA, minute)
      who == <<generateClientFingerprint(ClientA), minute>>
  IN  /\ who \in DOMAIN arrived
      /\ arrived[who] = FingerprintLimit + 1
      /\ req[1].pc = "idle"
      /\ req[1].r.ua = ClientA.ua
      /\ req[1].resp.status = 429
      /\ req[1].rate.remaining = 0
      /\ CounterGet(config[2].key) = FingerprintLimit
      /\ CounterGet(config[1].key) < IpLimit
      /\ CounterGet(config[3].key) < GlobalLimit

\* C9: checkRateLimit rejects a request exactly when the counter of the
\* address, of the fingerprint or of all clients is at or above its limit;
\* the rejection reports remaining 0 and changes none of the counters.
C9_RejectIffOverLimit ==
  [][\A c \in RateClients :
       LET minute == now \div WindowMs
           who == <<generateClientFingerprint(c), minute>>
           before == IF who \in DOMAIN arrived THEN arrived[who] ELSE 0
           config == RateLimitConfig(c, minute)
           over == \/ CounterGet(config[1].key) >= IpLimit
                   \/ CounterGet(config[2].key) >= FingerprintLimit
                   \/ CounterGet(config[3].key) >= GlobalLimit
       IN  (who \in DOMAIN arrived' /\ arrived'[who] = before + 1)
             => IF over
                  THEN /\ req'[1].pc = "idle"
                       /\ req'[1].resp.status = 429
                       /\ ~req'[1].rate.allowed
                       /\ req'[1].rate.remaining = 0
                       /\ rateCount' = rateCount
                ELSE req'[1].pc = "rl_write"]_vars

\* client B was rejected for the address counter, its own counter and the
\* global one still below their limits
C9_Witness ==
  LET minute == now \div WindowMs
      config == RateLimitConfig(ClientB, minute)
      who == <<generateClientFingerprint(ClientB), minute>>
  IN  /\ who \in DOMAIN arrived
      /\ req[1].pc = "idle"
      /\ req[1].r.ua = ClientB.ua
      /\ req[1].resp.status = 429
      /\ req[1].rate.remaining = 0
      /\ CounterGet(config[1].key) = IpLimit
      /\ CounterGet(config[2].key) < arrived[who]
      /\ CounterGet(config[2].key) < FingerprintLimit
      /\ CounterGet(config[3].key) < GlobalLimit

C11_BoardMismatchRejected ==
  LET g == op.input
      expected == ExpectedBoardSizes[g.difficulty]
      differs == \/ g.boardSize.width # expected.width
                 \/ g.boardSize.height # expected.height
                 \/ g.mineCount # expected.mines
      canonical == [g EXCEPT !.boardSize.width = expected.width,
                             !.boardSize.height = expected.height,
                             !.mineCount = expected.mines]
      before == {"bad_format", "missing_session_info", "not_won",
                 "session_expired", "duration_mismatch"}
  IN  (op.name = "validateGameSession" /\ op.returned /\ differs) =>
        /\ ~op.result.valid
        /\ validateGameSession(canonical, now).reason \notin before
             => op.result = Invalid("board_mismatch", "critical")

\* a claim with one mine too many and a single move has been answered with
\* the board mismatch
C11_Witness ==
  /\ op.name = "validateGameSession"
  /\ op.returned
  /\ op.input.mineCount = ExpectedBoardSizes[op.input.difficulty].mines + 1
  /\ op.input.boardSize.width = ExpectedBoardSizes[op.input.difficulty].width
  /\ op.input.moves = 1
  /\ op.result.reason = "board_mismatch"

\* C11 as stated: the reason is the board mismatch whatever else is wrong
C11_AlwaysBoardMismatch ==
  LET g == op.input
      expected == ExpectedBoardSizes[g.difficulty]
      differs == \/ g.boardSize.width # expected.width
                 \/ g.boardSize.height # expected.height
                 \/ g.mineCount # expected.mines
  IN  (op.name = "validateGameSession" /\ op.returned /\ differs) =>
        op.result = Invalid("board_mismatch", "critical")

\* C12: when analyzeUserBehavior finishes for a submission that comes less
\* than 300 s after the last submission recorded for its user and
\* difficulty, the suspicion counter is the recorded one plus one; if that
\* exceeds 3 the request is answered 429 SUSPICIOUS_BEHAVIOR without a read
\* or write of the tier and the stored statistics stay as they were, else
\* the incremented counter is stored and the request goes on.
C12_FrequentCountedOrBlocked ==
  [][\A s \in Slots :
       LET r == req[s].r
           key == StatsKey(r.username, r.difficulty)
           recorded == userStats[key].data
           count == recorded.suspiciousCount + 1
       IN  (/\ req[s].pc = "stats_put" /\ req'[s].pc # "stats_put"
            /\ key \in DOMAIN userStats
            /\ now - recorded.lastSubmission < FrequentWindowS * 1000)
           => IF count > MaxSuspiciousCount
                THEN /\ req'[s].pc = "idle"
                     /\ req'[s].resp = Error(429, "SUSPICIOUS_BEHAVIOR")
                     /\ req[s].lb = <<>>
                     /\ tiers' = tiers
                     /\ userStats' = userStats
              ELSE /\ req'[s].pc = "tier_read"
                   /\ userStats'[key].data.suspiciousCount = count]_vars

\* a request has been blocked while the stored counter stands at 3
C12_Witness ==
  LET key == StatsKey(req[1].r.username, req[1].r.difficulty)
  IN  /\ req[1].resp = Error(429, "SUSPICIOUS_BEHAVIOR")
      /\ key \in DOMAIN userStats
      /\ userStats[key].data.suspiciousCount = MaxSuspiciousCount
      /\ userStats[key].data.submissions = MaxSuspiciousCount + 1

\* C13: a stored tier changes only in the step in which a POST request that
\* stands after its read of the tier puts its list, and that request is then
\* answered 200; a request gets there only by passing, in this order, the
\* rate limiter (allowed), the validators (no error) and the behaviour
\* analyzer (not blocked); no step of a request with another method, no
\* step that answers with a status of 400 or more and no step of an admin
\* request changes a tier.
C13_TierWrittenOnlyByAcceptPath ==
  [][/\ tiers' # tiers =>
          \E s \in Slots : /\ req[s].r.method = "POST"
                            /\ req[s].pc = "tier_put"
                            /\ req'[s].pc = "tier_done"
                            /\ tiers' = [tiers EXCEPT ![req[s].r.difficulty] =
                                           req'[s].top20]
     /\ \A s \in Slots :
          /\ (req[s].pc # "stats_get" /\ req'[s].pc = "stats_get")
               => (req[s].pc = "rl_write" /\ req'[s].rate.allowed)
          /\ (req[s].pc # "stats_put" /\ req'[s].pc = "stats_put")
               => (/\ req[s].pc = "stats_get"
                   /\ req[s].game.present
                   /\ validateUsername(req[s].r.username).valid
                   /\ validateTime(req[s].r.time).valid
                   /\ validateDifficulty(req[s].r.difficulty).valid
                   /\ validateGameDataStructure(req[s].game).valid
                   /\ validateScoreReasonableness(req[s].r.time, req[s].r.difficulty,
                                                  req[s].game, now).valid)
          /\ (req[s].pc # "tier_read" /\ req'[s].pc = "tier_read")
               => (/\ req[s].pc = "stats_put"
                   /\ userStats'[StatsKey(req[s].r.username, req[s].r.difficulty)]
                        .data.suspiciousCount <= MaxSuspiciousCount)
          /\ (req[s].pc # "tier_put" /\ req'[s].pc = "tier_put")
               => req[s].pc = "tier_read"
          /\ (req[s].pc = "tier_done" /\ req'[s].pc # "tier_done")
               => req'[s].resp.status = 200
          /\ (req'[s] # req[s]
               /\ (req'[s].r.method # "POST" \/ req'[s].resp.status >= 400))
               => tiers' = tiers
     /\ adm' # adm => tiers' = tiers]_vars

\* user A's record is in the tier and A's request has been answered 200 with
\* the limiter's admission
C13_Witness ==
  \E s \in Slots :
    /\ req[s].r.username = UserA
    /\ req[s].resp.status = 200
    /\ req[s].rate.allowed
    /\ \E i \in 1..Len(tiers["beginner"]) : tiers["beginner"][i].username = UserA

\* C14: the step that ends an accept-path write leaves no cache entry of the
\* tier under 'leaderboard:<difficulty>' or 'kv:leaderboard:<difficulty>',
\* and a GET that looks into the cache while no request stands between its
\* write of the tier and that step is answered with the stored tier or goes
\* on to read the store.
C14_GetAfterWriteReturnsStored ==
  [][\A s \in Slots :
       LET d == req[s].r.difficulty
       IN  /\ (req[s].pc = "tier_done" /\ req'[s].pc # "tier_done")
                => /\ TierKey(d) \notin DOMAIN cache'
                   /\ KvCacheKey(TierKey(d)) \notin DOMAIN cache'
           /\ (/\ req[s].pc = "get_cache" /\ req'[s].pc # "get_cache"
               /\ \A o \in Slots : ~(req[o].pc = "tier_done" /\ req[o].r.difficulty = d))
                => \/ req'[s].pc = "get_read"
                   \/ req'[s].resp.data = tiers[d]]_vars

\* C15: the list an accept-path request takes at its read is the one the
\* store holds at that moment, whatever the cache holds, and the list it
\* then puts is made of the list it took.
C15_AcceptPathReadsStore ==
  [][\A s \in Slots :
       LET r == req[s].r
       IN  /\ (req[s].pc = "tier_read" /\ req'[s].pc = "tier_put")
                => req'[s].lb = tiers[r.difficulty]
           /\ (req[s].pc = "tier_put" /\ req'[s].pc = "tier_done")
                => tiers'[r.difficulty] =
                     Top20(SortByTime(AcceptList(req[s].lb,
                       ScoreRecord(Trim(r.username), SecondsOf(r.time), r.gameId))))]_vars

\* a request has taken the tier while the cache held another list for it
C15_Witness ==
  \E s \in Slots :
    LET cacheKey == KvCacheKey(TierKey(req[s].r.difficulty))
    IN  /\ req[s].pc = "tier_put"
        /\ cacheKey \in DOMAIN cache
        /\ cache[cacheKey].data # req[s].lb
        /\ req[s].lb = tiers[req[s].r.difficulty]

\* C16: a safeGet that finds an unexpired cache entry returns its data, reads
\* nothing from the store and leaves the cache as it is; one that finds none
\* reads the store once and, when the store answers with a value, returns
\* that value and caches it for the given time (the cache's default when
\* none is given); otherwise it returns the caller's default and the cache
\* holds no entry of the key afterwards.
C16_SafeGetCacheFirst ==
  [][(op' # op /\ op'.name = "safeGet") =>
       LET i == op'.input
           res == op'.result
           cacheKey == KvCacheKey(i.key)
       IN  IF CacheHit(cacheKey, now)
             THEN /\ res.value = cache[cacheKey].data
                  /\ res.reads = 0
                  /\ cache' = cache
           ELSE /\ res.reads = 1
                /\ IF i.key \in DOMAIN kv /\ ~res.failed
                     THEN /\ res.value = JsonParse(kv[i.key].data)
                          /\ cacheKey \in DOMAIN cache'
                          /\ cache'[cacheKey] =
                               [data |-> res.value,
                                expiry |-> now + IF i.cacheTTL = 0 THEN DefaultCacheTtlMs
                                                 ELSE i.cacheTTL]
                   ELSE /\ res.value = i.defaultValue
                        /\ cacheKey \notin DOMAIN cache']_vars

\* a safeGet was answered from the cache while the store was failing
C16_Witness ==
  /\ op.name = "safeGet"
  /\ op.result.reads = 0
  /\ op.input.fails = "get"
  /\ op.result.value # op.input.defaultValue

\* C17: a safePut whose store write succeeds returns true, leaves the value
\* in the store and makes it the cache entry of the key, kept for
\* min(expirationTtl, 300) seconds when an expirationTtl is given, which is
\* never beyond the store's expiry; one whose store write fails returns
\* false and leaves store and cache as they were.
C17_SafePutStoreFirst ==
  [][(op' # op /\ op'.name = "safePut") =>
       LET i == op'.input
           res == op'.result
           cacheKey == KvCacheKey(i.key)
       IN  IF i.fails = "put"
             THEN res.value = FALSE /\ kv' = kv /\ cache' = cache
           ELSE /\ res.value = TRUE
                /\ kv'[i.key].data = JsonStringify(i.value)
                /\ cache'[cacheKey].data = i.value
                /\ i.expirationTtl # 0 =>
                     /\ cache'[cacheKey].expiry =
                          now + Min(i.expirationTtl * 1000, CacheCapMs)
                     /\ cache'[cacheKey].expiry <= kv'[i.key].exp]_vars

\* a value put for 600 s is cached for a shorter time
C17_Witness ==
  /\ op.name = "safePut"
  /\ op.input.expirationTtl = UsedTokenTtlS
  /\ op.result.value = TRUE
  /\ KvCacheKey(op.input.key) \in DOMAIN cache
  /\ op.input.key \in DOMAIN kv
  /\ cache[KvCacheKey(op.input.key)].expiry < kv[op.input.key].exp

\* C18: no call of the adapter ends with an exception, and a call in which
\* a store operation threw returns its default: the caller's default for
\* safeGet, false for safePut and batchPut, 0 for atomicIncrement and an
\* empty map for batchGet.
C18_AdapterNeverRaises ==
  (op.returned /\ op.name \in {"safeGet", "safePut", "atomicIncrement", "batchGet",
                                "batchPut"}) =>
    /\ ~op.result.threw
    /\ op.result.failed =>
         CASE op.name = "safeGet" -> op.result.value = op.input.defaultValue
           [] op.name = "safePut" -> op.result.value = FALSE
           [] op.name = "batchPut" -> op.result.value = FALSE
           [] op.name = "atomicIncrement" -> op.result.value = NumV(0)
           [] op.name = "batchGet" -> op.result.value = EmptyMap

\* a batchPut one of whose puts threw has returned false
C18_Witness ==
  /\ op.name = "batchPut"
  /\ op.result.failed
  /\ op.result.value = FALSE
  /\ ~op.result.threw

\* C19: at a worker whose ADMIN_KEY is not set or has fewer than 32
\* characters, an admin request that carried a Bearer token has been
\* answered 500, no token has been validated or is being validated, and no
\* used-token marker has been written.
C19_UnusableKeyAnswers500 ==
  (ADMIN_KEY = <<>> \/ Len(ADMIN_KEY) < 32) =>
    /\ adm.bearer => adm.status = 500
    /\ adm.status \in {0, 401, 500}
    /\ adm.pc = "idle"
    /\ ~adm.valid
    /\ adm.reason \in {"none", "UNAUTHORIZED", "SERVER_ERROR"}
    /\ usedTokens = EmptyMap
    /\ acceptCount = EmptyMap

\* a token with the signature of a good key was presented to a worker with a
\* short key and answered 500
C19_Witness ==
  /\ ADMIN_KEY = ShortKey
  /\ adm.bearer
  /\ adm.status = 500
  /\ adm.token.parts = 2
  /\ adm.token.signature = generateTokenSignature(adm.token.timestampStr, AdminKey)

\* C20: the number of running tasks of a ConcurrencyOptimizer is never below
\* 0 nor above its maxConcurrency, and it is the number of tasks that were
\* started and have not settled.
C20_RunningWithinLimit ==
  /\ optimizer.running >= 0
  /\ optimizer.running <= optimizer.maxConcurrency
  /\ optimizer.running =
       Cardinality({id \in DOMAIN optimizer.tasks :
                      optimizer.tasks[id].state = "running"})

\* a saturated optimizer with a task waiting, after one task fulfilled and
\* one rejected
C20_Witness ==
  /\ optimizer.running = optimizer.maxConcurrency
  /\ optimizer.maxConcurrency > 1
  /\ optimizer.queue # <<>>
  /\ \E id \in DOMAIN optimizer.tasks : optimizer.tasks[id].state = "fulfilled"
  /\ \E id \in DOMAIN optimizer.tasks :
       optimizer.tasks[id].state = "rejected" /\ optimizer.tasks[id].kind = "async"

\* the tasks of optimizer o that wait, and one step of the optimizer
C21_Waiting(o) == {id \in DOMAIN o.tasks : o.tasks[id].state = "queued"}
C21_Step ==
  LET o == optimizer
      n == optimizer'
      id == Len(o.tasks) + 1
      settled == {t \in DOMAIN o.tasks :
                    o.tasks[t].state = "running" /\ n.tasks[t].state # "running"}
      begun == {t \in DOMAIN o.tasks :
                  o.tasks[t].state = "queued" /\ n.tasks[t].state = "running"}
  IN  /\ \A i, j \in DOMAIN n.tasks :
           i < j /\ n.tasks[i].state = "queued" => n.tasks[j].state = "queued"
      /\ \A k \in DOMAIN n.queue : n.tasks[n.queue[k]].state = "queued"
      /\ \A k, l \in DOMAIN n.queue : k < l => n.queue[k] < n.queue[l]
      /\ Len(n.queue) = Cardinality(C21_Waiting(n))
      /\ Len(n.tasks) = id /\ Saturated(o)
           => n.tasks[id].state = "queued" /\ n.queue = Append(o.queue, id)
      /\ settled # {} /\ o.queue # <<>>
           => /\ n.tasks[Head(o.queue)].state # "queued"
              /\ Cardinality(begun) <= 1
              /\ begun = {} => n.queue = <<>> /\ n.running = o.running - 1
              /\ begun # {} => n.running = o.running
\* C21: a task given to a saturated ConcurrencyOptimizer waits at the end of
\* the queue; tasks start in the order of their submission (no task has left
\* the queue while an earlier one still waits, and the queue lists the
\* waiting tasks in that order); and each time a running task settles while
\* tasks wait, the head of the queue is started and exactly one more task is
\* left running, unless every waiting task threw when it was called.
C21_StartedInOrder == [][C21_Step]_vars

\* a task that had to wait behind another one runs while a later one still
\* waits, after an earlier task was fulfilled
C21_Witness ==
  \E i, j, k \in DOMAIN optimizer.tasks :
     /\ i < j /\ j < k
     /\ i > optimizer.maxConcurrency
     /\ optimizer.tasks[i].state = "fulfilled"
     /\ optimizer.tasks[j].state = "running"
     /\ optimizer.tasks[k].state = "queued"

\* C22: the success response of an accepted submission reports the rank as
\* the 1-based position of the caller's record in the stored top 20, and no
\* rank when the record is not among them; a first submission into a tier
\* of fewer than 20 records is answered 200 with a rank of at least 1 and
\* its record stored.
C22_RankOrNone ==
  LET slot == req[1]
      r == slot.r
      stored == tiers[r.difficulty]
      position == FindIndex(stored, LAMBDA x : x.username = Trim(r.username))
  IN  slot.pc = "idle" /\ slot.resp.status = 200 /\ r.method = "POST"
        => /\ position > 0
                => slot.resp.rank = position /\ ~slot.resp.rankNull
           /\ position = 0 => slot.resp.rankNull
           /\ Len(stored) < TopN /\ slot.resp.improved = "na"
                => slot.resp.rank >= 1 /\ position >= 1

\* the statistics the store holds of the user of slot 1, and what one
\* submission of the given time makes of them
C23_Persisted(key) ==
  IF key \in DOMAIN userStats THEN userStats[key].data ELSE DefaultStats
C23_Updated(old, time) ==
  [old EXCEPT
     !.submissions = @ + 1,
     !.totalTime = NumV(ToNumber(@).ms + ToNumber(time).ms),
     !.bestTime = IF old.submissions = 0 \/ NumLt(ToNumber(time), ToNumber(@))
                    THEN [NumV(0) EXCEPT !.num = ToNumber(time)]
                  ELSE @,
     !.lastSubmission = now]
C23_Step ==
  LET slot == req[1]
      r == slot.r
      key == StatsKey(r.username, r.difficulty)
      old == C23_Persisted(key)
      new == userStats'[key].data
      want == C23_Updated(old, r.time)
  IN  /\ slot.pc = "stats_put" /\ req'[1].pc = "tier_read"
           => /\ key \in DOMAIN userStats'
              /\ new.submissions = want.submissions
              /\ new.totalTime = want.totalTime
              /\ new.bestTime = want.bestTime
              /\ new.lastSubmission = want.lastSubmission
      /\ slot.pc \in {"tier_read", "tier_put", "tier_done"} /\ now' = now
           => userStats' = userStats
      /\ req'[1].pc = "tier_read" /\ slot.pc # "tier_read" => slot.pc = "stats_put"
      /\ slot.pc = "stats_put" /\ req'[1].pc # "stats_put"
           => \/ req'[1].pc = "tier_read"
              \/ req'[1].resp.code = "SUSPICIOUS_BEHAVIOR" /\ userStats' = userStats
\* C23: every submission that passes validation and is not blocked updates
\* the stored statistics of its user exactly once (submissions + 1,
\* totalTime + time, bestTime the lower of bestTime and time, lastSubmission
\* now) before the tier is read, and nothing the handler does afterwards,
\* whatever its answer, changes them.
C23_StatsUpdatedOnce == [][C23_Step]_vars

\* C24: the first left click of a game is never a mine: the mines are put
\* down at that click and none of them on the clicked cell or a cell around
\* it, and the click leaves the game playing or won, never lost.
C24_FirstClickSafe ==
  [][game.firstClick /\ ~game'.firstClick
       => /\ game'.gameState \in {"playing", "won"}
          /\ game.board = {}
          /\ Cardinality(game'.board)
               = Min(game.mineCount,
                     Cardinality({cell \in Cells(game) :
                                    \A k \in 1..9 : Around(game'.first)[k] # cell}))
          /\ game'.first \in game'.revealed \ game'.board
          /\ \A k \in 1..9 : Around(game'.first)[k] \notin game'.board
          /\ game'.revealed \cap game'.board = {}]_vars

\* right after a first click in a corner, beside a flag, with two mines on
\* the board and the game going on
C24_Witness ==
  /\ ~game.firstClick
  /\ game.moveCount = 2
  /\ game.first = <<0, 0>>
  /\ <<0, 1>> \in game.flagged
  /\ Cardinality(game.board) = 2
  /\ game.gameState = "playing"

\* the records of a list as a set
C25_Records(list) == {list[i] : i \in 1..Len(list)}
C26_ReadThenWrite ==
  [][\A s \in Slots :
       LET slot == req[s]
           config == RateLimitConfig(slot.r, slot.minute)
       IN  slot.pc = "rl_write" /\ req'[s].pc # "rl_write"
             => /\ \A i \in 1..3 :
                     /\ slot.counts[i] < config[i].limit
                     /\ rateCount'[config[i].key].count = slot.counts[i] + 1
                /\ req'[s].rate.allowed
                /\ req'[s].rate.remaining = FingerprintLimit - slot.counts[2] - 1
                /\ \A o \in Slots \ {s} :
                     req[o].pc = "rl_write" /\ req[o].minute = slot.minute
                       /\ req[o].r.ip = slot.r.ip /\ req[o].r.ua = slot.r.ua
                       /\ req[o].counts = slot.counts
                       => req'[o] = req[o]]_vars

\* client A had made 14 requests in the window; two more were handled
\* together, both were admitted as the last one it may make, and the
\* counter of the fingerprint stands at 15 after 16 admissions
C26_Witness ==
  LET key == RateLimitConfig(ClientA, StartTime \div WindowMs)[2].key
  IN  /\ \A s \in Slots :
           /\ req[s].r.ua = ClientA.ua /\ req[s].r.method # "NONE"
           /\ req[s].rate.allowed /\ req[s].rate.remaining = 0
           /\ req[s].pc # "rl_write"
      /\ started = 2
      /\ arrived[<<generateClientFingerprint(req[1].r), StartTime \div WindowMs>>] = 2
      /\ key \in DOMAIN rateCount
      /\ rateCount[key].count = FingerprintLimit

\* C27: a token with a numeric timestamp is accepted at most once, also
\* when two presentations of it are validated at the same time, whatever
\* the order of their reads and puts of the used-token marker.
C27_AcceptedOnceConcurrently ==
  \A token \in DOMAIN acceptCount :
     ~ParseIntWhole(token.timestampStr).nan => acceptCount[token] <= 1

\* C28: while no request stands between its write of a tier and its
\* invalidation of the cache, the adapter's cache entry of the tier, if it
\* has one that has not expired, holds the stored tier, and a GET that is
\* answered then is answered with the stored tier, also when its read of
\* the store came before the write.
C28_GetNeverStale ==
  [][\A d \in Difficulties :
       LET key == KvCacheKey(TierKey(d))
           written == \A o \in Slots :
                        ~(req'[o].pc = "tier_done" /\ req'[o].r.difficulty = d)
       IN  /\ written /\ key \in DOMAIN cache' /\ ~(now' > cache'[key].expiry)
                => cache'[key].data = tiers'[d]
           /\ \A s \in Slots :
                (/\ written
                 /\ req[s].r.method = "GET" /\ req[s].r.difficulty = d
                 /\ req[s].pc \in {"get_cache", "get_set"}
                 /\ req'[s].pc = "idle")
                  => req'[s].resp.data = tiers'[d]]_vars

\* C29: a token of two parts whose timestamp part is not a number is
\* rejected with token_expired: it is never accepted, never answered on its
\* signature or its marker, and never reaches the put of the marker.
C29_NonNumericTimestampExpired ==
  [][LET token == adm'.token
     IN  (started' # started /\ adm' # IdleAdmin /\ adm'.bearer
            /\ token.parts = 2 /\ ParseIntWhole(token.timestampStr).nan)
           => /\ adm'.pc = "idle"
              /\ ~adm'.valid
              /\ adm'.reason = "token_expired"]_vars

\* C30: validateAdminToken answers with the reason of the first step that
\* fails, in the order structure (a token that cannot be decoded or has not
\* exactly two parts: invalid_token_structure), age (a timestamp that is not
\* a number, lies more than 300000 ms back or lies ahead: token_expired),
\* signature (invalid_signature), replay (token_already_used); a token
\* rejected at one of the first three steps leaves the used-token markers
\* as they are.
C30_ChecksInOrder ==
  [][LET token == adm'.token
         timestamp == ParseIntWhole(token.timestampStr)
         tokenAge == now - timestamp.n
         first ==
           IF token.parts # 2 THEN "invalid_token_structure"
           ELSE IF timestamp.nan \/ tokenAge > TokenMaxAgeMs \/ tokenAge < 0
             THEN "token_expired"
           ELSE IF token.signature
                     # generateTokenSignature(token.timestampStr, ADMIN_KEY)
             THEN "invalid_signature"
           ELSE IF token \in DOMAIN usedTokens THEN "token_already_used"
           ELSE "none"
     IN  (started' # started /\ adm' # IdleAdmin)
           => /\ adm'.reason = first
              /\ first # "none" => adm'.pc = "idle" /\ ~adm'.valid
              /\ first = "none" => adm'.pc = "token_put"
              /\ usedTokens' = usedTokens]_vars

\* the check that fails first for the call of validateScoreReasonableness in
\* op, each check looked at by itself on the fields it reads, in the order
\* structural, temporal, board, moves, score; "ok" when none fails
C31_FirstFailing ==
  LET g == op.input.gameData
      d == op.input.difficulty
      ms == op.input.time.num.ms
      expected == ExpectedBoardSizes[g.difficulty]
      failing ==
        [missing_session_info |->
           {"gameId", "timestamp", "boardSize", "gameEndTime", "firstClickTime"}
             \ g.fields # {},
         not_won |-> g.gameState # "won",
         session_expired |-> now - g.timestamp.ms > 7 * 24 * 60 * 60 * 1000,
         duration_mismatch |->
           Abs((g.gameEndTime - g.firstClickTime) - g.time.num.ms) > 60000,
         board_mismatch |-> \/ g.boardSize.width # expected.width
                            \/ g.boardSize.height # expected.height
                            \/ g.mineCount # expected.mines,
         too_few_moves |-> g.moves < MinMoves[g.difficulty],
         too_many_moves |-> g.moves > g.boardSize.width * g.boardSize.height * 2,
         too_fast_per_move |-> g.time.num.ms * 20 < g.moves * 1000,
         too_slow_per_move |-> g.time.num.ms > 60 * g.moves * 1000,
         too_fast |-> ms < MinTimesMs[d],
         too_slow |-> ms > MaxReasonableTimesMs[d],
         beats_world_record |-> ms < WorldRecordsMs[d],
         suspicious_round_time |-> ms % 1000 = 0 /\ ms < 2 * WorldRecordsMs[d]]
      order == <<"missing_session_info", "not_won", "session_expired",
                 "duration_mismatch", "board_mismatch", "too_few_moves",
                 "too_many_moves", "too_fast_per_move", "too_slow_per_move",
                 "too_fast", "too_slow", "beats_world_record",
                 "suspicious_round_time">>
      failed == {i \in 1..Len(order) : failing[order[i]]}
  IN  IF failed = {} THEN "ok"
      ELSE order[CHOOSE i \in failed : \A j \in failed : i <= j]

\* the number of checks that fail for the claim in op: the faults put into
\* the claim are told by its fields
C31_Faults ==
  LET g == op.input.gameData
  IN  Cardinality({f \in {"lost", "old", "board", "few_moves"} :
        \/ f = "lost" /\ g.gameState = "lost"
        \/ f = "old" /\ now - g.timestamp.ms > SessionMaxAgeMs
        \/ f = "board" /\ g.mineCount # ExpectedBoardSizes[g.difficulty].mines
        \/ f = "few_moves" /\ g.moves = 1})

\* C31: validateScoreReasonableness answers with the reason of the first
\* check that fails in the order structural (required fields, gameState),
\* temporal (age, duration), board, moves (floor, ceiling, time per move),
\* score (floor, ceiling, world record, round time), however many checks
\* fail, and it rejects exactly when some check fails, whatever the severity
\* of that check is.
C31_FirstFailingCheckAnswers ==
  (op.name = "validateScoreReasonableness" /\ op.returned) =>
    /\ op.result.reason = C31_FirstFailing
    /\ op.result.valid = (C31_FirstFailing = "ok")

\* a lost game that is also too old, has one mine too many and a single move
\* has been answered with the reason of the game state
C31_Witness ==
  /\ op.name = "validateScoreReasonableness"
  /\ op.returned
  /\ C31_Faults = 4
  /\ "firstClickTime" \in op.input.gameData.fields
  /\ op.result.reason = "not_won"
  /\ ~op.result.valid

\* C32: a claim that passed the checks before the moves passes the checks of
\* the moves exactly when moves >= the floor of its difficulty, moves <=
\* width x height x 2, 20 x time >= moves and time <= 60 x moves.
C32_MovesCheckExact ==
  LET g == op.input
      time == ToNumber(g.time)
      before == {"bad_format", "missing_session_info", "not_won",
                 "session_expired", "duration_mismatch", "board_mismatch"}
      ofMoves == {"too_few_moves", "too_many_moves", "too_fast_per_move",
                  "too_slow_per_move"}
  IN  (op.name = "validateGameSession" /\ op.returned
         /\ op.result.reason \notin before) =>
        (op.result.reason \notin ofMoves <=>
           /\ g.moves >= MinMoves[g.difficulty]
           /\ g.moves <= g.boardSize.width * g.boardSize.height * 2
           /\ time.fin = "fin"
           /\ 20 * time.ms >= g.moves * 1000
           /\ time.ms <= 60 * g.moves * 1000)

\* the same for claims whose time is a number
C32_NumericTimes ==
  ToNumber(op.input.time).fin = "fin" => C32_MovesCheckExact

\* a claim with time / moves of exactly 0.05 and one of exactly 60 have passed
C32_Witness ==
  /\ op.name = "validateGameSession"
  /\ op.returned
  /\ op.result.valid
  /\ ToNumber(op.input.time).fin = "fin"
  /\ \/ 20 * op.input.time.num.ms = op.input.moves * 1000
     \/ op.input.time.num.ms = 60 * op.input.moves * 1000

\* C33: a claim with all session fields and gameState "won" passes the checks
\* of age and duration exactly when its start is at most 7 days before now
\* and (gameEndTime - firstClickTime) / 1000 differs from its time by at most
\* 60 seconds; otherwise it is rejected.
C33_TemporalCheckExact ==
  LET g == op.input
      time == ToNumber(g.time)
      gameStartTime == DateGetTime(g.timestamp)
      before == {"bad_format", "missing_session_info", "not_won"}
      temporal == {"session_expired", "duration_mismatch"}
  IN  (op.name = "validateGameSession" /\ op.returned
         /\ op.result.reason \notin before) =>
        /\ op.result.reason \notin temporal <=>
             /\ gameStartTime.fin = "fin"
             /\ now - gameStartTime.ms <= 7 * 24 * 60 * 60 * 1000
             /\ time.fin = "fin"
             /\ Abs((g.gameEndTime - g.firstClickTime) - time.ms) <= 60 * 1000
        /\ op.result.reason \in temporal => ~op.result.valid

\* the same for claims whose timestamp is a date and whose time is a number
C33_DatesAndNumbers ==
  (op.input.timestamp.kind = "iso" /\ ToNumber(op.input.time).fin = "fin")
    => C33_TemporalCheckExact

\* a claim started exactly 7 days ago whose duration is off by exactly 60
\* seconds has passed the checks of age and duration, and one a millisecond
\* older has been rejected as expired
C33_Witness ==
  /\ op.name = "validateGameSession"
  /\ op.returned
  /\ op.input.timestamp.kind = "iso"
  /\ ToNumber(op.input.time).fin = "fin"
  /\ \/ /\ now - op.input.timestamp.ms = SessionMaxAgeMs
        /\ Abs((op.input.gameEndTime - op.input.firstClickTime)
                 - op.input.time.num.ms) = DurationSlackS * 1000
        /\ op.result.valid
     \/ /\ now - op.input.timestamp.ms = SessionMaxAgeMs + 1
        /\ op.result.reason = "session_expired"

\* the smallest whole number of seconds that is at least twice the world
\* record, and the submissions that passed the validation of the score
C34_Smallest == [beginner |-> 1, intermediate |-> 15, expert |-> 63]
C34_Passed ==
  {s \in Slots : /\ req[s].pc \in {"stats_put", "tier_read", "tier_put", "tier_done"}
                 /\ req[s].r.method = "POST"}

\* C34: no submission of a time below the smallest whole number of seconds
\* that is at least twice the world record of its difficulty (1 beginner, 15
\* intermediate, 63 expert) passes the validation of the score, and no tier
\* ever holds a record with a time below it.
C34_NoRecordBelowTwiceWorldRecord ==
  /\ \A s \in C34_Passed :
       NumLt(Secs(C34_Smallest[req[s].r.difficulty] - 1), ToNumber(req[s].r.time))
  /\ \A d \in Difficulties : \A i \in 1..Len(tiers[d]) :
       tiers[d][i].time >= C34_Smallest[d]

\* the same for the submissions whose time is a number
C34_NumericTimes ==
  \A s \in C34_Passed :
    req[s].r.time.typ = "number" =>
      NumLt(Secs(C34_Smallest[req[s].r.difficulty] - 1), ToNumber(req[s].r.time))

\* a numeric time of 15 seconds has entered the intermediate tier, and one
\* of 14 seconds has been answered 400
C34_Witness ==
  /\ Len(tiers["intermediate"]) > 0
  /\ tiers["intermediate"][1].time = 15
  /\ req[1].pc = "idle"
  /\ req[1].r.difficulty = "intermediate"
  /\ req[1].r.time = NumV(14000)
  /\ req[1].resp.status = 400

\* C35: the suspiciousCount held in the store for a user and difficulty is
\* always between 0 and 3.
C35_CountWithinBounds ==
  \A key \in DOMAIN userStats :
    /\ userStats[key].data.suspiciousCount >= 0
    /\ userStats[key].data.suspiciousCount <= MaxSuspiciousCount

\* a submission after the cooldown has lowered a stored count of 3
C35_Witness ==
  /\ StatsKey(UserB, "beginner") \in DOMAIN userStats
  /\ userStats[StatsKey(UserB, "beginner")].data.suspiciousCount = 2
  /\ userStats[StatsKey(UserB, "beginner")].data.submissions = 5

\* what C36 says of one step: a step of analyzeUserBehavior that blocks
\* leaves the stored statistics, lastSubmission with them, as they are, and
\* one made 300 s or more after the stored lastSubmission, or with nothing
\* stored, does not block
C36_Step ==
  LET slot == req[1]
      key == StatsKey(slot.r.username, slot.r.difficulty)
      blocked == /\ req'[1].pc = "idle"
                 /\ req'[1].resp.code = "SUSPICIOUS_BEHAVIOR"
  IN  (slot.pc = "stats_put" /\ req'[1].pc # "stats_put") =>
        /\ blocked => UNCHANGED userStats
        /\ (\/ key \notin DOMAIN userStats
            \/ now - userStats[key].data.lastSubmission >= 300 * 1000)
             => /\ ~blocked
                /\ req'[1].pc = "tier_read"
                /\ userStats'[key].data.lastSubmission = now

\* C36: blocked attempts do not change the stored lastSubmission, and the
\* first submission analysed 300 s or more after the stored lastSubmission
\* is not blocked, however many blocked attempts came in between.
C36_BlockEndsByItself == [][C36_Step]_vars

\* after two blocked attempts a submission made exactly 300 s after the
\* last recorded one has been recorded
C36_Witness ==
  LET key == StatsKey(UserB, "beginner")
  IN  /\ key \in DOMAIN userStats
      /\ started >= 3
      /\ now = CoolStats.lastSubmission + FrequentWindowS * 1000
      /\ userStats[key].data.lastSubmission = now
      /\ userStats[key].data.submissions = CoolStats.submissions + 1
      /\ userStats[key].data.suspiciousCount = CoolStats.suspiciousCount + 1

\* C37: the statistics of a user and difficulty are kept in one entry, under
\* the name that the tier record carries: two submissions whose usernames
\* differ only in white space around them update the same entry.
C37_OneStatisticsEntryPerUser ==
  \A k1, k2 \in DOMAIN userStats :
    (Trim(k1[3]) = Trim(k2[3]) /\ k1[4] = k2[4]) => k1 = k2

\* "a" and " a" have both submitted to the beginner tier: the tier holds one
\* record of a, the store two statistics entries
C37_Witness ==
  /\ {StatsKey(UserA, "beginner"), StatsKey(UserPaddedA, "beginner")}
       \subseteq DOMAIN userStats
  /\ Cardinality({i \in 1..Len(tiers["beginner"]) :
                    tiers["beginner"][i].username = UserA}) = 1
  /\ {<<"beginner", <<"1">>>>, <<"beginner", <<"2">>>>} \subseteq accepted
  /\ userStats[StatsKey(UserPaddedA, "beginner")].data.suspiciousCount = 0

\* C38: no counter of the store is above the limit of its scope (20 address,
\* 15 fingerprint, 1000 global), whatever the order of the reads and writes
\* of requests handled together; a request that is about to write read every
\* counter below its limit.
C38_CountersWithinCeiling ==
  LET ceiling == [ip |-> 20, fingerprint |-> 15, global |-> 1000]
  IN  /\ \A key \in DOMAIN rateCount : rateCount[key].count <= ceiling[key[1]]
      /\ \A s \in Slots :
           req[s].pc = "rl_write" =>
             /\ req[s].counts[1] < ceiling.ip
             /\ req[s].counts[2] < ceiling.fingerprint
             /\ req[s].counts[3] < ceiling.global

\* the counter of client A's fingerprint stands at its limit after two
\* requests handled together wrote it, and a third request was answered 429
C38_Witness ==
  LET key == RateLimitConfig(ClientA, StartTime \div WindowMs)[2].key
  IN  /\ key \in DOMAIN rateCount
      /\ rateCount[key].count = FingerprintLimit
      /\ started = 3
      /\ arrived[<<generateClientFingerprint(ClientA), StartTime \div WindowMs>>] = 3
      /\ req[1].pc = "idle"
      /\ req[1].r.ua = ClientA.ua
      /\ req[1].resp.status = 429
      /\ req[2].rate.allowed
      /\ req[2].rate.remaining = 0

\* what C39 says of one step: a request whose counter put throws, or which
\* is answered 429 as it arrives, is denied with remaining 0 and leaves the
\* counters as they were
C39_Step ==
  LET slot == req[1]
      denied == /\ req'[1].pc = "idle"
                /\ req'[1].resp.status = 429
                /\ ~req'[1].rate.allowed
                /\ req'[1].rate.remaining = 0
  IN  /\ (slot.pc = "rl_write" /\ req'[1].pc = "idle")
           => denied /\ UNCHANGED rateCount
      /\ (started' # started /\ req'[1].resp.status = 429)
           => denied /\ UNCHANGED rateCount

\* C39: when a read or a put of a counter throws in checkRateLimit the
\* request is answered 429 with allowed false and remaining 0, and no
\* counter is left incremented for it.
C39_FailureDeniesAndCountsNothing == [][C39_Step]_vars

\* the same for the reads only
C39_ReadFailure ==
  [][(started' # started /\ req'[1].resp.status = 429)
       => /\ ~req'[1].rate.allowed
          /\ req'[1].rate.remaining = 0
          /\ UNCHANGED rateCount]_vars

\* a request was denied although nothing had been counted in its window,
\* and the counter of its address stands at 1
C39_Witness ==
  /\ started = 1
  /\ req[1].pc = "idle"
  /\ req[1].resp.status = 429
  /\ ~req[1].rate.allowed
  /\ CounterGet(RateLimitConfig(req[1].r, now \div WindowMs)[1].key) = 1
  /\ CounterGet(RateLimitConfig(req[1].r, now \div WindowMs)[2].key) = 0

\* what C40 says of every state: with a task waiting exactly maxConcurrency
\* tasks run, never more run, and once every task given has settled nothing
\* runs and nothing waits
C40_NoIdleSlot ==
  LET o == optimizer
      settled == {id \in DOMAIN o.tasks : o.tasks[id].state \in {"fulfilled", "rejected"}}
  IN  /\ o.queue # <<>> => o.running = o.maxConcurrency
      /\ o.running <= o.maxConcurrency
      /\ o.running = Cardinality({id \in DOMAIN o.tasks : o.tasks[id].state = "running"})
      /\ settled = DOMAIN o.tasks => o.running = 0 /\ o.queue = <<>>

\* C40: the optimizer leaves no slot idle while a task waits (exactly
\* maxConcurrency tasks run whenever the queue is not empty), and when every
\* running task comes to an end every task given to it is started and its
\* promise settled, after a rejection as after a fulfilment.
C40_NoIdleSlotAndAllSettle ==
  /\ []C40_NoIdleSlot
  /\ \A id \in 1..MaxTasks :
       (id \in DOMAIN optimizer.tasks)
         ~> (/\ id \in DOMAIN optimizer.tasks
             /\ optimizer.tasks[id].state \in {"fulfilled", "rejected"})

\* a task waits while every slot is taken, after a running task was rejected
\* and a task that had waited took its slot
C40_Witness ==
  LET o == optimizer
  IN  /\ o.queue # <<>>
      /\ o.running = o.maxConcurrency
      /\ \E id \in DOMAIN o.tasks :
           /\ o.tasks[id].kind = "async"
           /\ o.tasks[id].state = "rejected"
           /\ \E later \in DOMAIN o.tasks :
                later > id + o.maxConcurrency - 1 /\ o.tasks[later].state = "running"

====
